---- MODULE Spec2Model ----
(***************************************************************************)
(* XSerialOne: FrameState normalisation (base.py), the InputPipeline tick  *)
(* and run loop (pipeline.py) and the SerialInterface send path            *)
(* (serial_interface.py).                                                  *)
(*                                                                         *)
(* Floating values are fixed-point integers in units of 1/Scale, so 1.0 is *)
(* Scale and 0.2 is 20.  Python values that reach from_dict are tagged     *)
(* records, one field name per Python type.                                *)
(***************************************************************************)
EXTENDS Integers, Sequences, FiniteSets, TLC

VARIABLES
    generators,             \* InputPipeline.generators
    modifiers,              \* InputPipeline.modifiers
    on_generate_callbacks,  \* InputPipeline._on_generate_callbacks
    on_post_mod_callbacks,  \* InputPipeline._on_post_mod_callbacks
    send_interval,          \* InputPipeline.send_interval
    last_send,              \* InputPipeline.last_send
    serial,                 \* InputPipeline.serial and its SerialInterface.ser
    pc,                     \* position of the caller in run_loop / update
    state,                  \* the local `state` of update()
    sample,                 \* what generators[0].generate() returned this tick
    idx,                    \* index of the for loop update() is in
    now,                    \* the local `now` of update()
    trace,                  \* calls made by the current tick, in order
    obs_fault,              \* the loop whose callback raised first in this tick, or "none"
    ret,                    \* what the last finished update() returned
    writes,                 \* clock readings of the completed ser.write calls
    ticks,                  \* number of update() calls started
    failure,                \* the exception that left run_loop, if any
    raw,                    \* argument of FrameState.from_dict
    norm,                   \* result of FrameState.from_dict
    arg,                    \* arguments of a method called on its own
    res,                    \* what that call returned
    queue_size,             \* TwitchChatListener: maxsize of msg_queue
    msg_queue,              \* TwitchChatListener.msg_queue
    listener_running,       \* TwitchChatListener.running
    listener_pc,            \* position of the listener thread in run()
    arrived,                \* messages get_message() has returned so far
    viewer_q,               \* DebugViewer._q
    viewer_running,         \* DebugViewer._running
    viewer_latest,          \* DebugViewer._latest
    render_threads,         \* position of each thread start() created, in _run
    pygame,                 \* whether the import of pygame succeeded
    viewer_error,           \* the exception the last start() raised, if any
    offered,                \* enqueue calls made so far
    heap,                   \* the tuple and list objects, by address
    frames,                 \* the FrameState objects: the addresses of their fields
    plains                  \* the dicts to_dict returned: the addresses of their entries

\* the state of a TwitchChatListener
chat_vars == << queue_size, msg_queue, listener_running, listener_pc, arrived >>

\* the state of a DebugViewer
viewer_vars == << viewer_q, viewer_running, viewer_latest, render_threads, pygame,
                 viewer_error, offered >>

\* the objects behind the frames and their plain forms
heap_vars == << heap, frames, plains >>

\* the state of the optional modules, which the pipeline itself never touches
modules_vars == << chat_vars, viewer_vars, heap_vars >>

\* the state of the pipeline and of FrameState.from_dict
pipeline_vars == << generators, modifiers, on_generate_callbacks,
                    on_post_mod_callbacks, send_interval, last_send, serial,
                    state, sample, idx, now, trace, obs_fault, ret, writes,
                    ticks, failure, raw, norm >>

vars == << generators, modifiers, on_generate_callbacks, on_post_mod_callbacks,
           send_interval, last_send, serial, pc, state, sample, idx, now,
           trace, obs_fault, ret, writes, ticks, failure, raw, norm, arg, res, modules_vars >>

----------------------------------------------------------------------------
(* Bounds *)

MaxButtonsLen == 11     \* longest raw buttons sequence
MaxAxesLen == 7         \* longest raw axes sequence
MaxDpadLen == 3         \* longest raw dpad sequence
MaxGenerators == 2      \* generators registered at most
MaxModifiers == 2       \* modifiers registered at most
MaxObservers == 2       \* callbacks registered at most, per list
MaxTicks == 2           \* update() calls of one run
MaxTime == 4            \* largest clock reading
MaxInterval == 2        \* largest send_interval
MaxStride == 4          \* button patterns of the frames a method is called on
MaxPacketAxes == 7      \* most axes of a frame handed to the encoder

----------------------------------------------------------------------------
(* Fixed-point arithmetic *)

Scale == 100

Min(a, b) == IF a < b THEN a ELSE b
Max(a, b) == IF a > b THEN a ELSE b
Abs(a) == IF a < 0 THEN 0 - a ELSE a

\* int(x) of a float: truncation toward zero
Trunc(x) == IF x < 0 THEN 0 - ((0 - x) \div Scale) ELSE x \div Scale

----------------------------------------------------------------------------
(* Python values *)

PyNone == [t |-> "None"]
PyBool(b) == [t |-> "bool", b |-> b]
PyInt(n) == [t |-> "int", n |-> n]
PyFloat(x) == [t |-> "float", x |-> x]
PyNaN == [t |-> "nan"]
PyStr(s) == [t |-> "str", s |-> s]
PyList(items) == [t |-> "list", items |-> items]
PyTuple(items) == [t |-> "tuple", items |-> items]
PyDict(d) == [t |-> "dict", d |-> d]

\* isinstance(v, list)
IsSequence_list_only(v) == v.t = "list"

\* isinstance(v, (list, tuple))
IsSequence(v) == v.t \in {"list", "tuple"}

\* bool(v)
Truthy(v) ==
    CASE v.t = "None" -> FALSE
      [] v.t = "bool" -> v.b
      [] v.t = "int" -> v.n /= 0
      [] v.t = "float" -> v.x /= 0
      [] v.t = "nan" -> TRUE
      [] v.t = "str" -> v.s /= ""
      [] v.t \in {"list", "tuple"} -> Len(v.items) > 0
      [] v.t = "dict" -> DOMAIN v.d /= {}

\* the strings Python parses as a number, with the value float() gives
NumericStrings == {"0.5", "2"}
StrValue(s) == IF s = "0.5" THEN 50 ELSE 200

\* float(v): [ok |-> TRUE, x |-> value] or [ok |-> FALSE] when float() raises.
\* A NaN is kept apart from the numbers: no comparison with it is true.
ToFloat(v) ==
    CASE v.t = "bool" -> [ok |-> TRUE, nan |-> FALSE, x |-> IF v.b THEN Scale ELSE 0]
      [] v.t = "int" -> [ok |-> TRUE, nan |-> FALSE, x |-> v.n * Scale]
      [] v.t = "float" -> [ok |-> TRUE, nan |-> FALSE, x |-> v.x]
      [] v.t = "nan" -> [ok |-> TRUE, nan |-> TRUE, x |-> 0]
      [] v.t = "str" /\ v.s \in NumericStrings ->
            [ok |-> TRUE, nan |-> FALSE, x |-> StrValue(v.s)]
      [] OTHER -> [ok |-> FALSE, nan |-> FALSE, x |-> 0]

\* int(v): [ok |-> TRUE, n |-> value] or [ok |-> FALSE] when int() raises
\* (int of a NaN, of None, of a sequence, of a string that is not an integer
\* literal)
ToInt(v) ==
    CASE v.t = "bool" -> [ok |-> TRUE, n |-> IF v.b THEN 1 ELSE 0]
      [] v.t = "int" -> [ok |-> TRUE, n |-> v.n]
      [] v.t = "float" -> [ok |-> TRUE, n |-> Trunc(v.x)]
      [] v.t = "str" /\ v.s = "2" -> [ok |-> TRUE, n |-> 2]
      [] OTHER -> [ok |-> FALSE, n |-> 0]

----------------------------------------------------------------------------
(* base.py: FrameState *)

NumButtons == 10
NumAxes == 6

Repeat(v, n) == [i \in 1..n |-> v]

\* (s + pad * n)[:n]
PadTo(s, pad, n) == [i \in 1..n |-> IF i <= Len(s) THEN s[i] ELSE pad]

\* FrameState(buttons, axes, dpad): the dataclass stores what it is given
FrameState(b, a, d) == [cls |-> "FrameState", buttons |-> b, axes |-> a, dpad |-> d]

\* FrameState(): the field defaults
DefaultFrame == FrameState(Repeat(FALSE, NumButtons), Repeat(0, NumAxes), <<0, 0>>)

\* the data-model invariants of a Frame
ValidFrame(f) ==
    /\ f.cls = "FrameState"
    /\ Len(f.buttons) = NumButtons
    /\ \A i \in 1..Len(f.buttons) : f.buttons[i] \in BOOLEAN
    /\ Len(f.axes) = NumAxes
    /\ \A i \in 1..Len(f.axes) : f.axes[i] >= 0 - Scale /\ f.axes[i] <= Scale
    /\ Len(f.dpad) = 2
    /\ \A i \in 1..Len(f.dpad) : f.dpad[i] \in {0 - 1, 0, 1}

\* _to_float_clamped without the clamp
to_float_clamped_no_clamp(x) ==
    LET v == ToFloat(x) IN
    IF ~v.ok THEN [ok |-> TRUE, x |-> 0]
    ELSE IF v.nan THEN [ok |-> TRUE, x |-> Scale]
    ELSE [ok |-> TRUE, x |-> v.x]

\* _to_float_clamped(x): max(-1.0, min(1.0, float(x))), 0.0 when float raises;
\* [ok |-> FALSE] would be an exception leaving the function.
\* min(1.0, nan) is 1.0 because nan < 1.0 is false.
to_float_clamped(x) ==
    LET v == ToFloat(x) IN
    IF ~v.ok THEN [ok |-> TRUE, x |-> 0]
    ELSE IF v.nan THEN [ok |-> TRUE, x |-> Scale]
    ELSE [ok |-> TRUE, x |-> Max(0 - Scale, Min(Scale, v.x))]

\* the dpad branch without the clamp of line 72
normalize_dpad_unclamped(dpad) ==
    IF IsSequence(dpad) /\ Len(dpad.items) >= 2
    THEN LET hx == ToInt(dpad.items[1])
             hy == ToInt(dpad.items[2])
         IN IF hx.ok /\ hy.ok
            THEN [ok |-> TRUE, dpad |-> << hx.n, hy.n >>]
            ELSE [ok |-> TRUE, dpad |-> <<0, 0>>]
    ELSE [ok |-> TRUE, dpad |-> <<0, 0>>]

\* the dpad branch of _normalize_values: int() of both entries inside one try
normalize_dpad(dpad) ==
    IF IsSequence(dpad) /\ Len(dpad.items) >= 2
    THEN LET hx == ToInt(dpad.items[1])
             hy == ToInt(dpad.items[2])
         IN IF hx.ok /\ hy.ok
            THEN [ok |-> TRUE,
                  dpad |-> << Max(0 - 1, Min(1, hx.n)), Max(0 - 1, Min(1, hy.n)) >>]
            ELSE [ok |-> TRUE, dpad |-> <<0, 0>>]
    ELSE [ok |-> TRUE, dpad |-> <<0, 0>>]

\* the buttons branch: (b + [False] * 10)[:10]
normalize_buttons(buttons) ==
    IF IsSequence(buttons)
    THEN PadTo([i \in 1..Len(buttons.items) |-> Truthy(buttons.items[i])],
               FALSE, NumButtons)
    ELSE Repeat(FALSE, NumButtons)

\* the axes branch: (a + [0.0] * 6)[:6]
normalize_axes(axes) ==
    IF IsSequence(axes)
    THEN LET a == [i \in 1..Len(axes.items) |-> to_float_clamped(axes.items[i])]
         IN [ok |-> \A i \in 1..Len(a) : a[i].ok,
             axes |-> PadTo([i \in 1..Len(a) |-> a[i].x], 0, NumAxes)]
    ELSE [ok |-> TRUE, axes |-> Repeat(0, NumAxes)]

\* obj.get(key)
DictGet(obj, key) == IF key \in DOMAIN obj.d THEN obj.d[key] ELSE PyNone

\* FrameState._normalize_values(obj); raised is an exception leaving it
normalize_values(obj) ==
    IF obj.t /= "dict"
    THEN [raised |-> FALSE, buttons |-> Repeat(FALSE, NumButtons),
          axes |-> Repeat(0, NumAxes), dpad |-> <<0, 0>>]
    ELSE LET b == normalize_buttons(DictGet(obj, "buttons"))
             a == normalize_axes(DictGet(obj, "axes"))
             d == normalize_dpad(DictGet(obj, "dpad"))
         IN [raised |-> ~(a.ok /\ d.ok), buttons |-> b, axes |-> a.axes,
             dpad |-> d.dpad]

\* FrameState.from_dict(obj)
from_dict(obj) ==
    LET data == normalize_values(obj)
    IN [raised |-> data.raised,
        frame |-> FrameState(data.buttons, data.axes, data.dpad)]

\* FrameState.to_dict()
to_dict(f) ==
    PyDict([k \in {"buttons", "axes", "dpad"} |->
        CASE k = "buttons" -> PyList([i \in 1..Len(f.buttons) |-> PyBool(f.buttons[i])])
          [] k = "axes" -> PyList([i \in 1..Len(f.axes) |-> PyFloat(f.axes[i])])
          [] k = "dpad" -> PyTuple([i \in 1..Len(f.dpad) |-> PyInt(f.dpad[i])])])

----------------------------------------------------------------------------
(* Raw inputs of from_dict *)

\* entries a raw sequence is made of
RawEntries ==
    << PyBool(TRUE), PyStr("x"), PyNone, PyFloat(200), PyFloat(0 - 200),
       PyStr("bad"), PyInt(0), PyInt(5), PyInt(0 - 5), PyFloat(50),
       PyFloat(0 - 150), PyStr("2"), PyNaN, PyBool(FALSE), PyStr(""),
       PyList(<< >>), PyInt(1), PyStr("0.5") >>

\* the sequence of n entries that starts at entry k (cyclically)
RawSeq(k, n) ==
    [i \in 1..n |-> RawEntries[((k + i - 2) % Len(RawEntries)) + 1]]

\* a raw field: n >= 0 a list or a tuple of n entries, n < 0 not a sequence
RawField(k, n) ==
    IF n >= 0 THEN (IF k % 2 = 0 THEN PyList(RawSeq(k, n)) ELSE PyTuple(RawSeq(k, n)))
    ELSE IF n = 0 - 1 THEN PyNone
    ELSE PyStr("bad")

\* a mapping with the three fields; n = -3 leaves the key out
RawDict(k, nb, na, nd) ==
    LET keys == (IF nb = 0 - 3 THEN {} ELSE {"buttons"})
                \cup (IF na = 0 - 3 THEN {} ELSE {"axes"})
                \cup (IF nd = 0 - 3 THEN {} ELSE {"dpad"})
    IN PyDict([key \in keys |->
            CASE key = "buttons" -> RawField(k, nb)
              [] key = "axes" -> RawField(k + 3, na)
              [] key = "dpad" -> RawField(k + 7, nd)])

NonMappings == { PyNone, PyInt(5), PyStr("bad"), PyList(<< PyInt(1) >>) }

\* {buttons: [true, "x", null], axes: [2.0, -2.0, "bad", 0, 0, 0], dpad: [5, -5]}
ScenarioRaw ==
    PyDict([key \in {"buttons", "axes", "dpad"} |->
        CASE key = "buttons" -> PyList(<< PyBool(TRUE), PyStr("x"), PyNone >>)
          [] key = "axes" -> PyList(<< PyFloat(200), PyFloat(0 - 200), PyStr("bad"),
                                      PyInt(0), PyInt(0), PyInt(0) >>)
          [] key = "dpad" -> PyList(<< PyInt(5), PyInt(0 - 5) >>)])

NoRaw == PyStr("not called")
NoNorm == [raised |-> FALSE, frame |-> DefaultFrame, called |-> FALSE]

\* no method has been called on its own
NoArg == [method |-> "none"]
NoRes == [called |-> FALSE]

\* no TwitchChatListener has been constructed
ChatIdle ==
    /\ queue_size = 0
    /\ msg_queue = << >>
    /\ listener_running = FALSE
    /\ listener_pc = "none"
    /\ arrived = 0

\* no DebugViewer has been constructed
ViewerIdle ==
    /\ viewer_q = << >>
    /\ viewer_running = FALSE
    /\ viewer_latest = [tag \in {"gen", "post"} |-> 0]
    /\ render_threads = << >>
    /\ pygame = TRUE
    /\ viewer_error = "none"
    /\ offered = 0

\* tuple([False] * 10), tuple([0.0] * 6) and (0, 0): the field defaults, made
\* once when the class is defined
ClassDefaults ==
    << [kind |-> "tuple", items |-> Repeat(FALSE, NumButtons)],
       [kind |-> "tuple", items |-> Repeat(0, NumAxes)],
       [kind |-> "tuple", items |-> << 0, 0 >>] >>

MaxFrames == 3
MaxPlains == 2

\* an address no object has been made at
FreeCell == [kind |-> "free", items |-> << >>]

\* where the objects made for frame i and for plain form j are put:
\* addresses 1..3 hold the class defaults
FrameCell(i, k) == 3 * i + k
PlainCell(j, k) == 3 * (MaxFrames + j) + k
HeapSize == 3 * (1 + MaxFrames + MaxPlains)

\* the objects when no frame has been made
EmptyHeap == [a \in 1..HeapSize |-> IF a <= 3 THEN ClassDefaults[a] ELSE FreeCell]

\* no frame object has been made
HeapIdle ==
    /\ heap = EmptyHeap
    /\ frames = << >>
    /\ plains = << >>

\* none of the optional modules is in use
ModulesIdle == ChatIdle /\ ViewerIdle /\ HeapIdle

----------------------------------------------------------------------------
(* modules/deadzones.py: the modifiers the pipeline is configured with *)

DeadzoneLeft == 20
DeadzoneRight == 15
HairThreshold == 10

\* a modifier's update(): [ok |-> TRUE, frame |-> result], or [ok |-> FALSE]
\* when it raises (AttributeError on a value without .axes, IndexError on
\* axes that are too short)
\* DeadzoneModifier.update with "<=" for "<" on line 32
DeadzoneModifier_update_inclusive(deadzone_left, deadzone_right, st) ==
    IF st.cls /= "FrameState" \/ Len(st.axes) < 4
    THEN [ok |-> FALSE, frame |-> st]
    ELSE LET deadzones == << deadzone_left, deadzone_left, deadzone_right, deadzone_right >>
             new_axes == [i \in 1..Len(st.axes) |->
                            IF i <= 4
                            THEN (IF Abs(st.axes[i]) <= deadzones[i] THEN 0 ELSE st.axes[i])
                            ELSE st.axes[i]]
         IN [ok |-> TRUE, frame |-> FrameState(st.buttons, new_axes, st.dpad)]

\* DeadzoneModifier(deadzone_left, deadzone_right).update(st)
DeadzoneModifier_update_with(deadzone_left, deadzone_right, st) ==
    IF st.cls /= "FrameState" \/ Len(st.axes) < 4
    THEN [ok |-> FALSE, frame |-> st]
    ELSE LET deadzones == << deadzone_left, deadzone_left, deadzone_right, deadzone_right >>
             new_axes == [i \in 1..Len(st.axes) |->
                            IF i <= 4
                            THEN (IF Abs(st.axes[i]) < deadzones[i] THEN 0 ELSE st.axes[i])
                            ELSE st.axes[i]]
         IN [ok |-> TRUE, frame |-> FrameState(st.buttons, new_axes, st.dpad)]

\* the DeadzoneModifier the pipeline is configured with
DeadzoneModifier_update(st) == DeadzoneModifier_update_with(DeadzoneLeft, DeadzoneRight, st)

\* HairTriggers.update with ">=" for ">" on line 48
HairTriggers_update_inclusive(threshold, st) ==
    IF st.cls /= "FrameState" \/ Len(st.axes) < 6
    THEN [ok |-> FALSE, frame |-> st]
    ELSE LET rt == st.axes[6]
             axes == [st.axes EXCEPT ![6] = IF rt >= threshold THEN Scale ELSE 0 - Scale]
         IN [ok |-> TRUE, frame |-> FrameState(st.buttons, axes, st.dpad)]

HairTriggers_update_padded(threshold, st) ==
    IF st.cls /= "FrameState" \/ Len(st.axes) < 6
    THEN [ok |-> FALSE, frame |-> st]
    ELSE LET rt == st.axes[6]
             axes == [st.axes EXCEPT ![6] = IF rt > threshold THEN Scale ELSE 0 - Scale]
         IN [ok |-> TRUE,
             frame |-> FrameState(PadTo(st.buttons, FALSE, NumButtons), axes, st.dpad)]

\* HairTriggers(threshold).update(st)
HairTriggers_update_with(threshold, st) ==
    IF st.cls /= "FrameState" \/ Len(st.axes) < 6
    THEN [ok |-> FALSE, frame |-> st]
    ELSE LET rt == st.axes[6]
             axes == [st.axes EXCEPT ![6] = IF rt > threshold THEN Scale ELSE 0 - Scale]
         IN [ok |-> TRUE, frame |-> FrameState(st.buttons, axes, st.dpad)]

\* the HairTriggers the pipeline is configured with
HairTriggers_update(st) == HairTriggers_update_with(HairThreshold, st)

----------------------------------------------------------------------------
(* modules/antirecoil.py *)

RecoilStrength == 30
TriggerThreshold == 10

\* update with ">" for ">=" on line 30
BasicAntiRecoilModifier_update_strict(recoil_strength, trigger_threshold, st) ==
    IF st.cls /= "FrameState" \/ Len(st.axes) < 6
    THEN [ok |-> FALSE, frame |-> st]
    ELSE LET right_x == st.axes[3]
             right_y == st.axes[4]
             rt == st.axes[6]
             recoil_force == (Abs(recoil_strength) * rt) \div Scale
             axes == IF rt > trigger_threshold
                     THEN (IF right_x * right_x + right_y * right_y > 1
                           THEN [st.axes EXCEPT ![3] = right_x, ![4] = right_y + recoil_force]
                           ELSE [st.axes EXCEPT ![4] = st.axes[4] + recoil_force])
                     ELSE st.axes
         IN [ok |-> TRUE, frame |-> FrameState(st.buttons, axes, st.dpad)]

\* BasicAntiRecoilModifier.update with recoil_strength and trigger_threshold
\* as given; sqrt(x*x + y*y) > 0.01 is x*x + y*y > 1 in squares of 1/Scale.
\* The frames it is called on keep strength * rt a multiple of Scale.
BasicAntiRecoilModifier_update_with(recoil_strength, trigger_threshold, st) ==
    IF st.cls /= "FrameState" \/ Len(st.axes) < 6
    THEN [ok |-> FALSE, frame |-> st]
    ELSE LET right_x == st.axes[3]
             right_y == st.axes[4]
             rt == st.axes[6]
             recoil_force == (Abs(recoil_strength) * rt) \div Scale
             axes == IF rt >= trigger_threshold
                     THEN (IF right_x * right_x + right_y * right_y > 1
                           THEN [st.axes EXCEPT ![3] = right_x, ![4] = right_y + recoil_force]
                           ELSE [st.axes EXCEPT ![4] = st.axes[4] + recoil_force])
                     ELSE st.axes
         IN [ok |-> TRUE, frame |-> FrameState(st.buttons, axes, st.dpad)]

\* BasicAntiRecoilModifier(): the values __init__ sets
BasicAntiRecoilModifier_update(st) ==
    BasicAntiRecoilModifier_update_with(RecoilStrength, TriggerThreshold, st)

----------------------------------------------------------------------------
(* The modifiers a pipeline is configured with *)

Modifiers == {"deadzone", "hair_triggers"}
AllModifiers == Modifiers \cup {"antirecoil"}

\* mod.update(state)
mod_update(mod, st) ==
    IF mod = "deadzone" THEN DeadzoneModifier_update(st)
    ELSE IF mod = "hair_triggers" THEN HairTriggers_update(st)
    ELSE BasicAntiRecoilModifier_update(st)

----------------------------------------------------------------------------
(* serial_interface.py *)

\* SerialInterface.dpad_encode
dpad_encode(dpad) == (dpad[1] + 1) + (dpad[2] + 1) * 3

\* SerialInterface.buttons_to_bitmask: bit i for every pressed entry i,
\* whatever the length of buttons, cut to 16 bits
RECURSIVE buttons_to_bitmask_from(_, _)
buttons_to_bitmask_from(buttons, i) ==
    IF i > Len(buttons) THEN 0
    ELSE (IF buttons[i] THEN 2 ^ (i - 1) ELSE 0) + buttons_to_bitmask_from(buttons, i + 1)

buttons_to_bitmask(buttons) == buttons_to_bitmask_from(buttons, 1) % 65536

\* struct.pack('<H', n)
pack_uint16(n) == << n % 256, n \div 256 >>

\* the binary exponent e of a/Scale: 2^e <= a/Scale < 2^(e+1)
Float32Exponent(a) ==
    CHOOSE e \in (0 - 10)..10 :
        IF e >= 0 THEN 2 ^ e * Scale <= a /\ a < 2 ^ (e + 1) * Scale
        ELSE Scale <= a * 2 ^ (0 - e) /\ a * 2 ^ (0 - e) < 2 * Scale

\* struct.pack('<f', x): the IEEE-754 single nearest to x (ties to even),
\* least significant byte first
pack_float32(x) ==
    IF x = 0 THEN << 0, 0, 0, 0 >>
    ELSE LET a == Abs(x)
             e == Float32Exponent(a)
             num == a * 2 ^ (23 - e)
             q == num \div Scale
             r == num % Scale
             rounded == IF 2 * r > Scale \/ (2 * r = Scale /\ q % 2 = 1) THEN q + 1 ELSE q
             carry == rounded = 2 ^ 24
             biased == e + 127 + (IF carry THEN 1 ELSE 0)
             frac == (IF carry THEN 2 ^ 23 ELSE rounded) - 2 ^ 23
         IN << frac % 256, (frac \div 256) % 256,
               (biased % 2) * 128 + frac \div 65536,
               (IF x < 0 THEN 128 ELSE 0) + biased \div 2 >>

RECURSIVE SumSeq(_)
SumSeq(s) == IF s = << >> THEN 0 ELSE Head(s) + SumSeq(Tail(s))

RECURSIVE Flatten(_)
Flatten(ss) == IF ss = << >> THEN << >> ELSE Head(ss) \o Flatten(Tail(ss))

\* pack() with the header inside the checksum
Packet_pack_checksum_with_header(buttons, axes, dpad_code) ==
    IF buttons \notin 0..65535 \/ dpad_code \notin 0..255
    THEN [ok |-> FALSE, bytes |-> << >>]
    ELSE LET ax == PadTo(axes, 0, NumAxes)
             payload == pack_uint16(buttons)
                        \o Flatten([i \in 1..NumAxes |-> pack_float32(ax[i])])
                        \o << dpad_code >>
             checksum == (255 + SumSeq(payload)) % 256
         IN [ok |-> TRUE, bytes |-> << 255 >> \o payload \o << checksum >>]

\* Packet(buttons, axes, dpad_code).pack(): [ok |-> FALSE] is struct.error,
\* raised for a mask outside 0..65535 or a dpad code outside 0..255
Packet_pack(buttons, axes, dpad_code) ==
    IF buttons \notin 0..65535 \/ dpad_code \notin 0..255
    THEN [ok |-> FALSE, bytes |-> << >>]
    ELSE LET ax == PadTo(axes, 0, NumAxes)
             payload == pack_uint16(buttons)
                        \o Flatten([i \in 1..NumAxes |-> pack_float32(ax[i])])
                        \o << dpad_code >>
             checksum == SumSeq(payload) % 256
         IN [ok |-> TRUE, bytes |-> << 255 >> \o payload \o << checksum >>]

\* the packet send_frame builds from a frame (lines 49-53), packed
frame_bytes(frame_state) ==
    Packet_pack(buttons_to_bitmask(frame_state.buttons), frame_state.axes,
                dpad_encode(frame_state.dpad))

\* SerialInterface.send_frame: the ways the call can end.  ser is "mock" when
\* SerialInterface.ser is None, "open" when it is a serial port.
send_frame(ser, frame_state) ==
    IF frame_state.cls /= "FrameState" THEN {"TypeError"}
    ELSE IF Len(frame_state.dpad) /= 2 THEN {"ValueError"}
    ELSE IF ser /= "open" THEN {"RuntimeError"}
    ELSE IF ~frame_bytes(frame_state).ok THEN {"struct.error"}
    ELSE {"ok", "SerialException"}

\* the exceptions of send_frame that are transport faults: the port is not
\* open, or ser.write failed
TransportFaults == {"RuntimeError", "SerialException"}

\* SerialInterface.close
close(ser) == IF ser = "open" THEN "closed" ELSE ser

----------------------------------------------------------------------------
(* What a generator can hand to the pipeline *)

NoFrame == [cls |-> "NoneType"]

PressedFrame ==
    FrameState([i \in 1..NumButtons |-> i = 1], << 10, 0 - 50, 15, 10, 0, 50 >>,
               << 1, 0 - 1 >>)
\* FrameState is a plain dataclass: built directly it keeps any field values
OutOfRangeFrame ==
    FrameState([i \in 1..(NumButtons + 1) |-> i = NumButtons + 1],
               << 200, 0, 0, 0, 0, 0 >>, << 2, 2 >>)
ShortFrame == FrameState(<< TRUE >>, << 200 >>, << 5, 0 - 5 >>)
\* a generator that returns the raw mapping instead of a FrameState
RawSample == [cls |-> "dict"]

GenSamples == { PressedFrame, OutOfRangeFrame, ShortFrame, RawSample }

\* the objects registered, named by the order of their registration
GeneratorIds == << "g1", "g2", "g3", "g4" >>
CallbackIds == << "c1", "c2", "c3", "c4" >>
SerialPorts == {"none", "mock", "open"}
Times == 0..MaxTime
Intervals == 1..MaxInterval

----------------------------------------------------------------------------
(* pipeline.py: InputPipeline *)

Range(s) == { s[i] : i \in 1..Len(s) }

\* InputPipeline.__init__(serial_port, baud, send_interval)
Init ==
    /\ generators = << >>
    /\ modifiers = << >>
    /\ on_generate_callbacks = << >>
    /\ on_post_mod_callbacks = << >>
    /\ send_interval \in Intervals
    /\ last_send = 0
    /\ serial \in SerialPorts
    /\ pc = "config"
    /\ state = NoFrame
    /\ sample = NoFrame
    /\ idx = 1
    /\ now = 0
    /\ trace = << >>
    /\ obs_fault = "none"
    /\ ret = NoFrame
    /\ writes = << >>
    /\ ticks = 0
    /\ failure = "none"
    /\ raw = NoRaw
    /\ norm = NoNorm
    /\ arg = NoArg
    /\ res = NoRes
    /\ ModulesIdle

add_generator ==
    /\ pc = "config"
    /\ Len(generators) < MaxGenerators
    /\ generators' = Append(generators, GeneratorIds[Len(generators) + 1])
    /\ UNCHANGED << modifiers, on_generate_callbacks, on_post_mod_callbacks,
                    send_interval, last_send, serial, pc, state, sample, idx,
                    now, trace, obs_fault, ret, writes, ticks, failure, raw, norm, arg, res, modules_vars >>

add_modifier(mod) ==
    /\ pc = "config"
    /\ Len(modifiers) < MaxModifiers
    /\ mod \notin Range(modifiers)
    /\ modifiers' = Append(modifiers, mod)
    /\ UNCHANGED << generators, on_generate_callbacks, on_post_mod_callbacks,
                    send_interval, last_send, serial, pc, state, sample, idx,
                    now, trace, obs_fault, ret, writes, ticks, failure, raw, norm, arg, res, modules_vars >>

add_generate_callback ==
    /\ pc = "config"
    /\ Len(on_generate_callbacks) < MaxObservers
    /\ on_generate_callbacks' =
            Append(on_generate_callbacks, CallbackIds[Len(on_generate_callbacks) + 1])
    /\ UNCHANGED << generators, modifiers, on_post_mod_callbacks,
                    send_interval, last_send, serial, pc, state, sample, idx,
                    now, trace, obs_fault, ret, writes, ticks, failure, raw, norm, arg, res, modules_vars >>

add_post_mod_callback ==
    /\ pc = "config"
    /\ Len(on_post_mod_callbacks) < MaxObservers
    /\ on_post_mod_callbacks' =
            Append(on_post_mod_callbacks, CallbackIds[Len(on_post_mod_callbacks) + 1])
    /\ UNCHANGED << generators, modifiers, on_generate_callbacks,
                    send_interval, last_send, serial, pc, state, sample, idx,
                    now, trace, obs_fault, ret, writes, ticks, failure, raw, norm, arg, res, modules_vars >>

\* run_loop() is entered
run_loop ==
    /\ pc = "config"
    /\ pc' = "update"
    /\ UNCHANGED << generators, modifiers, on_generate_callbacks,
                    on_post_mod_callbacks, send_interval, last_send, serial,
                    state, sample, idx, now, trace, obs_fault, ret, writes,
                    ticks, failure, raw, norm, arg, res, modules_vars >>

\* update() without the post-transform loop
EnterPostMod_skipped == "gate"

\* where update() goes after combine_generators, after the post-generate
\* loop and after apply_modifiers: a for loop over an empty list is skipped
EnterPostMod == IF Len(on_post_mod_callbacks) > 0 THEN "on_post_mod" ELSE "gate"
EnterModifiers == IF Len(modifiers) > 0 THEN "apply_modifiers" ELSE EnterPostMod
EnterOnGenerate == IF Len(on_generate_callbacks) > 0 THEN "on_generate" ELSE EnterModifiers

\* combine_generators sampling the generator registered last
sampled_generator_last(gens) == gens[Len(gens)]

\* the generator combine_generators samples (line 61): self.generators[0]
sampled_generator(gens) == gens[1]

\* combine_generators returning the neutral frame when no generator is
\* registered
combine_generators_neutral_frame ==
    IF generators = << >> THEN { [raised |-> FALSE, called |-> FALSE, state |-> DefaultFrame] }
    ELSE { [raised |-> FALSE, called |-> TRUE, state |-> f] : f \in GenSamples \cup {NoFrame} }
         \cup { [raised |-> TRUE, called |-> TRUE, state |-> NoFrame] }

\* what combine_generators() can do: return None, return what the first
\* generator returned (None included), or let the generator's exception out
combine_generators ==
    IF generators = << >> THEN { [raised |-> FALSE, called |-> FALSE, state |-> NoFrame] }
    ELSE { [raised |-> FALSE, called |-> TRUE, state |-> f] : f \in GenSamples \cup {NoFrame} }
         \cup { [raised |-> TRUE, called |-> TRUE, state |-> NoFrame] }

\* update(), lines 76-78: sample the generator, return None without a frame
update_generate ==
    /\ pc = "update"
    /\ ticks < MaxTicks
    /\ ticks' = ticks + 1
    /\ \E r \in combine_generators :
        /\ trace' = IF r.called THEN << << "generate", sampled_generator(generators) >> >>
                              ELSE << >>
        /\ sample' = r.state
        /\ state' = r.state
        /\ IF r.raised
           THEN pc' = "crashed" /\ failure' = "generator" /\ ret' = ret
           ELSE IF r.state = NoFrame
           THEN pc' = "sleep" /\ failure' = failure /\ ret' = NoFrame
           ELSE pc' = EnterOnGenerate /\ failure' = failure /\ ret' = ret
    /\ idx' = 1
    /\ obs_fault' = "none"
    /\ UNCHANGED << generators, modifiers, on_generate_callbacks,
                    on_post_mod_callbacks, send_interval, last_send, serial,
                    now, writes, raw, norm, arg, res, modules_vars >>

\* cb(state) without the try/except
callback_propagates_uncaught(raised) == raised

\* what the try/except around cb(state) lets out of a callback that raised
\* an Exception: nothing
callback_propagates(raised) == FALSE

\* update(), lines 80-84: one iteration of the post-generate loop
update_on_generate ==
    /\ pc = "on_generate"
    /\ \E raised \in BOOLEAN :
        /\ trace' = Append(trace, << "on_generate", on_generate_callbacks[idx] >>)
        /\ obs_fault' = IF raised /\ obs_fault = "none" THEN pc ELSE obs_fault
        /\ IF callback_propagates(raised)
           THEN pc' = "crashed" /\ failure' = "callback" /\ idx' = idx
           ELSE /\ failure' = failure
                /\ IF idx < Len(on_generate_callbacks)
                   THEN pc' = pc /\ idx' = idx + 1
                   ELSE pc' = EnterModifiers /\ idx' = 1
    /\ UNCHANGED << generators, modifiers, on_generate_callbacks,
                    on_post_mod_callbacks, send_interval, last_send, serial,
                    state, sample, now, ret, writes, ticks, raw, norm, arg, res, modules_vars >>

\* apply_modifiers(state): the whole loop, [ok |-> FALSE] when a modifier raises
RECURSIVE apply_modifiers(_, _)
apply_modifiers(mods, st) ==
    IF mods = << >> THEN [ok |-> TRUE, frame |-> st]
    ELSE LET r == mod_update(Head(mods), st)
         IN IF r.ok THEN apply_modifiers(Tail(mods), r.frame) ELSE r

\* every modifier handed the frame apply_modifiers was called with
modifier_input_first(st, smp) == smp

\* the argument of mod.update on line 69: the running state
modifier_input(st, smp) == st

\* update(), line 86 / apply_modifiers: one iteration of the modifier loop
update_apply_modifier ==
    /\ pc = "apply_modifiers"
    /\ LET r == mod_update(modifiers[idx], modifier_input(state, sample)) IN
        /\ trace' = Append(trace, << "modifier", modifiers[idx] >>)
        /\ IF r.ok
           THEN /\ state' = r.frame
                /\ failure' = failure
                /\ IF idx < Len(modifiers)
                   THEN pc' = pc /\ idx' = idx + 1
                   ELSE pc' = EnterPostMod /\ idx' = 1
           ELSE /\ state' = state
                /\ pc' = "crashed"
                /\ failure' = "modifier"
                /\ idx' = idx
    /\ UNCHANGED << generators, modifiers, on_generate_callbacks,
                    on_post_mod_callbacks, send_interval, last_send, serial,
                    sample, now, obs_fault, ret, writes, ticks, raw, norm, arg, res, modules_vars >>

\* update(), lines 88-92: one iteration of the post-transform loop
update_on_post_mod ==
    /\ pc = "on_post_mod"
    /\ \E raised \in BOOLEAN :
        /\ trace' = Append(trace, << "on_post_mod", on_post_mod_callbacks[idx] >>)
        /\ obs_fault' = IF raised /\ obs_fault = "none" THEN pc ELSE obs_fault
        /\ IF callback_propagates(raised)
           THEN pc' = "crashed" /\ failure' = "callback" /\ idx' = idx
           ELSE /\ failure' = failure
                /\ IF idx < Len(on_post_mod_callbacks)
                   THEN pc' = pc /\ idx' = idx + 1
                   ELSE pc' = "gate" /\ idx' = 1
    /\ UNCHANGED << generators, modifiers, on_generate_callbacks,
                    on_post_mod_callbacks, send_interval, last_send, serial,
                    state, sample, now, ret, writes, ticks, raw, norm, arg, res, modules_vars >>

\* line 95 without the interval test
gate_passes_no_interval(ser, t, last, interval) == ser /= "none"

\* line 95 without the test of self.serial
gate_passes_no_serial_test(ser, t, last, interval) == t - last >= interval

\* the condition of line 95
gate_passes(ser, t, last, interval) == ser /= "none" /\ t - last >= interval

\* update(), lines 94-96: read the clock, evaluate the gate, send_frame
update_gate ==
    /\ pc = "gate"
    /\ \E t \in Times :
        /\ now' = t
        /\ IF gate_passes(serial, t, last_send, send_interval)
           THEN \E o \in send_frame(serial, state) :
                    /\ trace' = trace \o << << "gate", "pass" >>, << "send_frame", o >> >>
                    /\ IF o = "ok"
                       THEN /\ writes' = Append(writes, t)
                            /\ pc' = "stamp"
                            /\ failure' = failure
                       ELSE /\ writes' = writes
                            /\ pc' = "crashed"
                            /\ failure' = o
                    /\ ret' = ret
           ELSE /\ trace' = Append(trace, << "gate", "skip" >>)
                /\ writes' = writes
                /\ pc' = "sleep"
                /\ failure' = failure
                /\ ret' = state
    /\ UNCHANGED << generators, modifiers, on_generate_callbacks,
                    on_post_mod_callbacks, send_interval, last_send, serial,
                    state, sample, idx, obs_fault, ticks, raw, norm, arg, res, modules_vars >>

\* line 97 left out
stamp_forgotten(last, t) == last

\* the value line 97 assigns to last_send
stamp(last, t) == t

\* update(), lines 97-99: record the transmit time and return the frame
update_stamp ==
    /\ pc = "stamp"
    /\ last_send' = stamp(last_send, now)
    /\ ret' = state
    /\ pc' = "sleep"
    /\ UNCHANGED << generators, modifiers, on_generate_callbacks,
                    on_post_mod_callbacks, send_interval, serial, state, sample,
                    idx, now, trace, obs_fault, writes, ticks, failure, raw, norm, arg, res, modules_vars >>

\* run_loop, line 108: time.sleep(0.001), then the next iteration.  update()
\* has returned: its locals are gone and run_loop drops its return value.
sleep ==
    /\ pc = "sleep"
    /\ pc' = "update"
    /\ state' = NoFrame
    /\ sample' = NoFrame
    /\ ret' = NoFrame
    /\ now' = 0
    /\ trace' = << >>
    /\ obs_fault' = "none"
    /\ UNCHANGED << generators, modifiers, on_generate_callbacks,
                    on_post_mod_callbacks, send_interval, last_send, serial,
                    idx, writes, ticks, failure, raw, norm, arg, res, modules_vars >>

Running == {"update", "on_generate", "apply_modifiers", "on_post_mod", "gate",
            "stamp", "sleep"}

\* the handler without the close
interrupt_close_forgotten(ser) == ser

\* what the KeyboardInterrupt handler does with the transport (lines 110-111)
interrupt_close(ser) == IF ser /= "none" THEN close(ser) ELSE ser

\* run_loop, lines 109-112: KeyboardInterrupt raised anywhere inside the try.
\* It unwinds update(), whose locals are gone when the handler runs.
keyboard_interrupt ==
    /\ pc \in Running
    /\ serial' = interrupt_close(serial)
    /\ pc' = "stopped"
    /\ state' = NoFrame
    /\ sample' = NoFrame
    /\ ret' = NoFrame
    /\ idx' = 1
    /\ now' = 0
    /\ trace' = << >>
    /\ obs_fault' = "none"
    /\ UNCHANGED << generators, modifiers, on_generate_callbacks,
                    on_post_mod_callbacks, send_interval, last_send, writes,
                    ticks, failure, raw, norm, arg, res, modules_vars >>

Next ==
    \/ add_generator
    \/ \E mod \in Modifiers : add_modifier(mod)
    \/ add_generate_callback
    \/ add_post_mod_callback
    \/ run_loop
    \/ update_generate
    \/ update_on_generate
    \/ update_apply_modifier
    \/ update_on_post_mod
    \/ update_gate
    \/ update_stamp
    \/ sleep
    \/ keyboard_interrupt

Spec == Init /\ [][Next]_vars

----------------------------------------------------------------------------
(* FrameState.from_dict on its own *)

RawInputs ==
    { RawDict(k, nb, na, nd) :
        k \in 1..Len(RawEntries), nb \in (0 - 3)..MaxButtonsLen,
        na \in (0 - 3)..MaxAxesLen, nd \in (0 - 3)..MaxDpadLen }
    \cup NonMappings \cup { ScenarioRaw }

InitNorm ==
    /\ generators = << >>
    /\ modifiers = << >>
    /\ on_generate_callbacks = << >>
    /\ on_post_mod_callbacks = << >>
    /\ send_interval = 1
    /\ last_send = 0
    /\ serial = "none"
    /\ pc = "from_dict"
    /\ state = NoFrame
    /\ sample = NoFrame
    /\ idx = 1
    /\ now = 0
    /\ trace = << >>
    /\ obs_fault = "none"
    /\ ret = NoFrame
    /\ writes = << >>
    /\ ticks = 0
    /\ failure = "none"
    /\ raw \in RawInputs
    /\ norm = NoNorm
    /\ arg = NoArg
    /\ res = NoRes
    /\ ModulesIdle

\* a call FrameState.from_dict(raw)
call_from_dict ==
    /\ pc = "from_dict"
    /\ norm' = [raised |-> from_dict(raw).raised, frame |-> from_dict(raw).frame,
                called |-> TRUE]
    /\ pc' = "returned"
    /\ UNCHANGED << generators, modifiers, on_generate_callbacks,
                    on_post_mod_callbacks, send_interval, last_send, serial,
                    state, sample, idx, now, trace, obs_fault, ret, writes,
                    ticks, failure, raw, arg, res, modules_vars >>

NextNorm == call_from_dict

SpecNorm == InitNorm /\ [][NextNorm]_vars

----------------------------------------------------------------------------
(* A pipeline with one generator, any of the modifiers, no observer and no   *)
(* transport                                                                 *)

InitFold ==
    /\ generators = << GeneratorIds[1] >>
    /\ modifiers = << >>
    /\ on_generate_callbacks = << >>
    /\ on_post_mod_callbacks = << >>
    /\ send_interval = 1
    /\ last_send = 0
    /\ serial = "none"
    /\ pc = "config"
    /\ state = NoFrame
    /\ sample = NoFrame
    /\ idx = 1
    /\ now = 0
    /\ trace = << >>
    /\ obs_fault = "none"
    /\ ret = NoFrame
    /\ writes = << >>
    /\ ticks = 0
    /\ failure = "none"
    /\ raw = NoRaw
    /\ norm = NoNorm
    /\ arg = NoArg
    /\ res = NoRes
    /\ ModulesIdle

NextFold ==
    \/ \E mod \in AllModifiers : add_modifier(mod)
    \/ run_loop
    \/ update_generate
    \/ update_apply_modifier
    \/ update_gate
    \/ sleep

SpecFold == InitFold /\ [][NextFold]_vars

----------------------------------------------------------------------------
(* FrameState.to_dict and from_dict, one after the other *)

\* a pipeline that is constructed and never configured or run
PipelineVarsIdle ==
    /\ generators = << >>
    /\ modifiers = << >>
    /\ on_generate_callbacks = << >>
    /\ on_post_mod_callbacks = << >>
    /\ send_interval = 1
    /\ last_send = 0
    /\ serial = "none"
    /\ state = NoFrame
    /\ sample = NoFrame
    /\ idx = 1
    /\ now = 0
    /\ trace = << >>
    /\ obs_fault = "none"
    /\ ret = NoFrame
    /\ writes = << >>
    /\ ticks = 0
    /\ failure = "none"
    /\ raw = NoRaw
    /\ norm = NoNorm

\* the pinned pipeline of a specification that calls one method on its own
PipelineIdle == PipelineVarsIdle /\ ModulesIdle

\* axis values of the frames a method is called on
AxisValues == << 0 - Scale, 0 - 50, 0 - 20, 0 - 15, 0 - 1, 0, 1, 15, 20, 50, Scale >>

\* buttons with every m-th button pressed, none for m = 0
ButtonPattern(m) == [i \in 1..NumButtons |-> m > 0 /\ (i - 1) % m = 0]

\* n axes that start at value k of AxisValues (cyclically)
AxesOfLen(k, n) == [i \in 1..n |-> AxisValues[((k + i - 2) % Len(AxisValues)) + 1]]

\* six axes that start at value k of AxisValues (cyclically)
AxesPattern(k) == AxesOfLen(k, NumAxes)

DpadValues == { << hx, hy >> : hx, hy \in {0 - 1, 0, 1} }

\* frames that satisfy the data-model invariants
ValidFrames ==
    { FrameState(ButtonPattern(m), AxesPattern(k), d) :
        m \in 0..MaxStride, k \in 1..Len(AxisValues), d \in DpadValues }

InitRound ==
    /\ PipelineIdle
    /\ pc = "to_dict"
    /\ arg \in { [method |-> "round_trip", f |-> f] : f \in ValidFrames }
    /\ res = NoRes

\* FrameState.from_dict(f.to_dict())
call_round_trip ==
    /\ pc = "to_dict"
    /\ res' = [called |-> TRUE, raised |-> from_dict(to_dict(arg.f)).raised,
               frame |-> from_dict(to_dict(arg.f)).frame]
    /\ pc' = "returned"
    /\ UNCHANGED << generators, modifiers, on_generate_callbacks,
                    on_post_mod_callbacks, send_interval, last_send, serial,
                    state, sample, idx, now, trace, obs_fault, ret, writes,
                    ticks, failure, raw, norm, arg, modules_vars >>

NextRound == call_round_trip

SpecRound == InitRound /\ [][NextRound]_vars

----------------------------------------------------------------------------
(* DeadzoneModifier.update on its own *)

\* the radii a DeadzoneModifier is constructed with, per stick
DeadzoneThresholds == {0, DeadzoneRight, DeadzoneLeft, Scale}

\* stick values around a threshold T: T - eps, T, T + eps, and the centre
Probe(T) == { v \in {T - 1, T, T + 1, 0} : Abs(v) <= Scale }

\* a valid frame with left stick (a, -a), right stick (b, -b)
StickFrame(a, b) ==
    FrameState(ButtonPattern(2), << a, 0 - a, b, 0 - b, 70, 5 >>, << 0 - 1, 1 >>)

InitDeadzone ==
    /\ PipelineIdle
    /\ pc = "deadzone"
    /\ arg \in { [method |-> "deadzone", left |-> l, right |-> r, f |-> StickFrame(a, b)] :
                    l \in DeadzoneThresholds, r \in DeadzoneThresholds,
                    a \in UNION { Probe(T) : T \in DeadzoneThresholds },
                    b \in UNION { Probe(T) : T \in DeadzoneThresholds } }
    /\ res = NoRes

\* DeadzoneModifier(arg.left, arg.right).update(arg.f)
call_deadzone ==
    /\ pc = "deadzone"
    /\ res' = [called |-> TRUE,
               ok |-> DeadzoneModifier_update_with(arg.left, arg.right, arg.f).ok,
               frame |-> DeadzoneModifier_update_with(arg.left, arg.right, arg.f).frame]
    /\ pc' = "returned"
    /\ UNCHANGED << generators, modifiers, on_generate_callbacks,
                    on_post_mod_callbacks, send_interval, last_send, serial,
                    state, sample, idx, now, trace, obs_fault, ret, writes,
                    ticks, failure, raw, norm, arg, modules_vars >>

NextDeadzone == call_deadzone

SpecDeadzone == InitDeadzone /\ [][NextDeadzone]_vars

----------------------------------------------------------------------------
(* BasicAntiRecoilModifier.update on its own *)

\* values of the attributes recoil_strength and trigger_threshold
RecoilStrengths == {0 - RecoilStrength, 0, RecoilStrength, 50}
TriggerThresholds == {0, TriggerThreshold, 50}

\* right stick positions: centred, within 0.01 of the centre, deflected
RightSticks == { << 0, 0 >>, << 1, 0 >>, << 50, 0 - 50 >>, << 0, Scale >>, << 0 - 20, 10 >> }

\* right trigger values around a threshold, and the end points
TriggerProbe(T) == { t \in {T - 10, T, T + 10, 0, Scale} : Abs(t) <= Scale }

\* a frame with right stick pos and right trigger t
RecoilFrame(pos, t) ==
    FrameState(ButtonPattern(3), << 20, 0 - 20, pos[1], pos[2], 0, t >>, << 0, 1 >>)

InitRecoil ==
    /\ PipelineIdle
    /\ pc = "antirecoil"
    /\ arg \in { [method |-> "antirecoil", strength |-> st, threshold |-> th,
                   f |-> RecoilFrame(pos, t)] :
                    st \in RecoilStrengths, th \in TriggerThresholds,
                    pos \in RightSticks,
                    t \in UNION { TriggerProbe(T) : T \in TriggerThresholds } }
    /\ res = NoRes

\* update(arg.f) of a BasicAntiRecoilModifier with the attributes of arg
call_antirecoil ==
    /\ pc = "antirecoil"
    /\ res' = [called |-> TRUE,
               ok |-> BasicAntiRecoilModifier_update_with(arg.strength, arg.threshold, arg.f).ok,
               frame |-> BasicAntiRecoilModifier_update_with(arg.strength, arg.threshold, arg.f).frame]
    /\ pc' = "returned"
    /\ UNCHANGED << generators, modifiers, on_generate_callbacks,
                    on_post_mod_callbacks, send_interval, last_send, serial,
                    state, sample, idx, now, trace, obs_fault, ret, writes,
                    ticks, failure, raw, norm, arg, modules_vars >>

NextRecoil == call_antirecoil

SpecRecoil == InitRecoil /\ [][NextRecoil]_vars

----------------------------------------------------------------------------
(* HairTriggers.update on its own *)

\* thresholds a HairTriggers is constructed with: inside [-1, 1) and 1.0
HairThresholds == {0 - Scale, 0, HairThreshold, Scale - 1, Scale}

\* buttons of the frames: ten of them, or a frame built with three
HairButtons == { ButtonPattern(2), << TRUE, FALSE, TRUE >> }

\* a frame with right trigger t
HairFrame(b, t) == FrameState(b, << 20, 0 - 20, 50, 0 - 50, 30, t >>, << 1, 0 >>)

InitHair ==
    /\ PipelineIdle
    /\ pc = "hair_triggers"
    /\ arg \in { [method |-> "hair_triggers", threshold |-> th, f |-> HairFrame(b, t)] :
                    th \in HairThresholds, b \in HairButtons,
                    t \in UNION { Probe(T) : T \in HairThresholds } }
    /\ res = NoRes

\* m = HairTriggers(arg.threshold): m.update(arg.f), and m.update of that
call_hair_triggers ==
    /\ pc = "hair_triggers"
    /\ LET once == HairTriggers_update_with(arg.threshold, arg.f)
           twice == HairTriggers_update_with(arg.threshold, once.frame)
       IN res' = [called |-> TRUE, ok |-> once.ok /\ twice.ok, frame |-> once.frame,
                  twice |-> twice.frame]
    /\ pc' = "returned"
    /\ UNCHANGED << generators, modifiers, on_generate_callbacks,
                    on_post_mod_callbacks, send_interval, last_send, serial,
                    state, sample, idx, now, trace, obs_fault, ret, writes,
                    ticks, failure, raw, norm, arg, modules_vars >>

NextHair == call_hair_triggers

SpecHair == InitHair /\ [][NextHair]_vars

----------------------------------------------------------------------------
(* modules/twitchchat.py: the listener thread, its queue and the modifier *)

MaxQueueSize == 2
MaxMessages == 3
ChatStep == 50

\* what msg.get("msg") is for the messages get_message() returns
ChatTexts == { "left", "right", "jump" }
NoMessage == [n |-> 0, msg |-> "None"]

\* queue.Queue(maxsize): a maxsize of 0 or less is an unbounded queue
queue_full_never(maxsize, n) == FALSE
queue_full(maxsize, n) == maxsize > 0 /\ n >= maxsize

put_nowait(q, maxsize, item) ==
    IF queue_full(maxsize, Len(q))
    THEN [raised |-> "Full", queue |-> q]
    ELSE [raised |-> "none", queue |-> Append(q, item)]

get_nowait(q) ==
    IF q = << >>
    THEN [raised |-> "Empty", queue |-> q, item |-> NoMessage]
    ELSE [raised |-> "none", queue |-> Tail(q), item |-> Head(q)]

\* TwitchChatModifier.update(st) with listener.msg_queue = q
TwitchChatModifier_update(q, st) ==
    LET got == get_nowait(q) IN
    IF got.raised = "Empty"
    THEN [ok |-> TRUE, frame |-> st, queue |-> q, item |-> NoMessage]
    ELSE IF st.cls # "FrameState"
    THEN [ok |-> FALSE, frame |-> st, queue |-> got.queue, item |-> got.item]
    ELSE IF got.item.msg \in { "left", "right" } /\ Len(st.axes) = 0
    THEN [ok |-> FALSE, frame |-> st, queue |-> got.queue, item |-> got.item]
    ELSE LET axes == IF got.item.msg = "left"
                     THEN [st.axes EXCEPT ![1] = Max(0 - Scale, @ - ChatStep)]
                     ELSE IF got.item.msg = "right"
                     THEN [st.axes EXCEPT ![1] = Min(Scale, @ + ChatStep)]
                     ELSE st.axes
         IN [ok |-> TRUE, frame |-> FrameState(st.buttons, axes, st.dpad),
             queue |-> got.queue, item |-> got.item]

QueueSizes == 0..MaxQueueSize

\* the frames the modifier is called on: what a generator may hand to the chain
ChatFrame(a) == FrameState(ButtonPattern(2), << a, 0 - 20, 50, 0 - 50, 30, 0 - 30 >>, << 1, 0 >>)
ChatFrames == { ChatFrame(a) : a \in { 0 - Scale, 0 - 60, 0, 60, Scale, 2 * Scale } }

\* listener = TwitchChatListener(channel, queue_size); TwitchChatModifier(listener)
InitChat ==
    /\ PipelineVarsIdle
    /\ pc = "twitchchat"
    /\ arg = NoArg
    /\ res = NoRes
    /\ queue_size \in QueueSizes
    /\ msg_queue = << >>
    /\ listener_running = TRUE
    /\ listener_pc = "created"
    /\ arrived = 0
    /\ ViewerIdle
    /\ HeapIdle

\* listener.start()
listener_start ==
    /\ listener_pc = "created"
    /\ listener_pc' = "while"
    /\ UNCHANGED << pipeline_vars, heap_vars, viewer_vars, pc, arg, res, queue_size, msg_queue,
                    listener_running, arrived >>

\* run(): the test of `while self.running`
listener_run_test ==
    /\ listener_pc = "while"
    /\ listener_pc' = IF listener_running THEN "get_message" ELSE "exited"
    /\ UNCHANGED << pipeline_vars, heap_vars, viewer_vars, pc, arg, res, queue_size, msg_queue,
                    listener_running, arrived >>

\* run(): one body of the loop; get_message() returns None or a message
listener_run_body ==
    /\ listener_pc = "get_message"
    /\ \/ UNCHANGED << msg_queue, arrived >>
       \/ /\ arrived < MaxMessages
          /\ \E text \in ChatTexts :
                msg_queue' = put_nowait(msg_queue, queue_size,
                                        [n |-> arrived + 1, msg |-> text]).queue
          /\ arrived' = arrived + 1
    /\ listener_pc' = "while"
    /\ UNCHANGED << pipeline_vars, heap_vars, viewer_vars, pc, arg, res, queue_size, listener_running >>

\* listener.stop()
listener_stop ==
    /\ listener_running
    /\ listener_running' = FALSE
    /\ UNCHANGED << pipeline_vars, heap_vars, viewer_vars, pc, arg, res, queue_size, msg_queue,
                    listener_pc, arrived >>

\* a pipeline tick that reaches TwitchChatModifier.update(f)
chat_update ==
    /\ pc = "twitchchat"
    /\ \E f \in ChatFrames :
          LET r == TwitchChatModifier_update(msg_queue, f) IN
          /\ arg' = [method |-> "twitchchat", f |-> f]
          /\ res' = [called |-> TRUE, ok |-> r.ok, frame |-> r.frame, item |-> r.item]
          /\ msg_queue' = r.queue
    /\ UNCHANGED << pipeline_vars, heap_vars, viewer_vars, pc, queue_size, listener_running, listener_pc,
                    arrived >>

NextChat ==
    \/ listener_start
    \/ listener_run_test
    \/ listener_run_body
    \/ listener_stop
    \/ chat_update

SpecChat == InitChat /\ [][NextChat]_vars

----------------------------------------------------------------------------
(* SerialInterface(port).send_frame(frame), for the ports of both modes *)

\* a port argument: None, or a string as the sequence of its characters
NonePort == [cls |-> "NoneType", chars |-> << >>]
PortStr(chars) == [cls |-> "str", chars |-> chars]

\* str.upper() on the characters the port names use
UpperChar(c) ==
    CASE c = "m" -> "M" [] c = "o" -> "O" [] c = "c" -> "C" [] c = "k" -> "K"
      [] c = "x" -> "X" [] OTHER -> c
upper(chars) == [i \in 1..Len(chars) |-> UpperChar(chars[i])]
startswith(chars, prefix) ==
    Len(chars) >= Len(prefix) /\ SubSeq(chars, 1, Len(prefix)) = prefix

\* SerialInterface.__init__(port): self.ser is None, or the opened port
SerialInterface_init(port) ==
    IF port.cls = "NoneType" \/ port.chars = << >>
          \/ startswith(upper(port.chars), << "M", "O", "C", "K" >>)
    THEN "mock"
    ELSE "open"

PortNames ==
    { NonePort, PortStr(<< >>), PortStr(<< "M", "O", "C", "K" >>),
      PortStr(<< "m", "o", "c", "k" >>), PortStr(<< "M", "o", "c", "k", "1" >>),
      PortStr(<< "M", "O", "C" >>), PortStr(<< "x", "M", "O", "C", "K" >>),
      PortStr(<< "C", "O", "M", "3" >>) }

\* a frame whose dpad has a single component
OneHatFrame == FrameState(Repeat(FALSE, NumButtons), Repeat(0, NumAxes), << 1 >>)

PortFrames ==
    { PressedFrame, DefaultFrame, OutOfRangeFrame, ShortFrame, OneHatFrame,
      RawSample, NoFrame }

InitPort ==
    /\ PipelineIdle
    /\ pc = "port_send_frame"
    /\ arg \in { [method |-> "port_send_frame", port |-> p, f |-> f] :
                    p \in PortNames, f \in PortFrames }
    /\ res = NoRes

\* SerialInterface(arg.port).send_frame(arg.f): what it raises, and the bytes
\* ser.write has taken
call_port_send_frame ==
    /\ pc = "port_send_frame"
    /\ \E o \in send_frame(SerialInterface_init(arg.port), arg.f) :
          res' = [called |-> TRUE, ser |-> SerialInterface_init(arg.port),
                  raised |-> IF o = "ok" THEN "none" ELSE o,
                  written |-> IF o = "ok" THEN frame_bytes(arg.f).bytes ELSE << >>]
    /\ pc' = "returned"
    /\ UNCHANGED << generators, modifiers, on_generate_callbacks,
                    on_post_mod_callbacks, send_interval, last_send, serial,
                    state, sample, idx, now, trace, obs_fault, ret, writes,
                    ticks, failure, raw, norm, arg, modules_vars >>

NextPort == call_port_send_frame

SpecPort == InitPort /\ [][NextPort]_vars

----------------------------------------------------------------------------
(* debug_viewer.py: the observer queue and the render thread *)

MaxStarts == 2
MaxOffers == 3

\* queue.Queue(): the default maxsize
ViewerQueueMaxsize == 0

ViewerTags == { "gen", "post" }

\* enqueue(tag, state): any exception of to_dict or put_nowait is swallowed
DebugViewer_enqueue(q, tag, n, st) ==
    IF st.cls # "FrameState" THEN q
    ELSE put_nowait(q, ViewerQueueMaxsize, [tag |-> tag, n |-> n]).queue

\* threads that start() created and that have not left _run
ActiveThreads == { i \in 1..Len(render_threads) : render_threads[i] # "exited" }

\* viewer = DebugViewer(); viewer.attach_to_pipeline(pipeline)
InitViewer ==
    /\ PipelineVarsIdle
    /\ ChatIdle
    /\ HeapIdle
    /\ pc = "viewer"
    /\ arg = NoArg
    /\ res = NoRes
    /\ viewer_q = << >>
    /\ viewer_running = FALSE
    /\ viewer_latest = [tag \in ViewerTags |-> 0]
    /\ render_threads = << >>
    /\ pygame \in BOOLEAN
    /\ viewer_error = "none"
    /\ offered = 0

\* a callback of a pipeline tick: enqueue(tag, state)
viewer_enqueue ==
    /\ offered < MaxOffers
    /\ offered' = offered + 1
    /\ \E tag \in ViewerTags : \E st \in { PressedFrame, RawSample } :
          viewer_q' = DebugViewer_enqueue(viewer_q, tag, offered + 1, st)
    /\ UNCHANGED << pipeline_vars, heap_vars, chat_vars, pc, arg, res, viewer_running,
                    viewer_latest, render_threads, pygame, viewer_error >>

\* start()
viewer_start ==
    /\ viewer_running \/ ~pygame \/ Len(render_threads) < MaxStarts
    /\ IF viewer_running
       THEN /\ viewer_error' = "none"
            /\ UNCHANGED << viewer_running, render_threads >>
       ELSE IF ~pygame
       THEN /\ viewer_error' = "RuntimeError"
            /\ UNCHANGED << viewer_running, render_threads >>
       ELSE /\ viewer_error' = "none"
            /\ viewer_running' = TRUE
            /\ render_threads' = Append(render_threads, "while")
    /\ UNCHANGED << pipeline_vars, heap_vars, chat_vars, pc, arg, res, viewer_q,
                    viewer_latest, pygame, offered >>

\* stop()
viewer_stop ==
    /\ viewer_running' = FALSE
    /\ UNCHANGED << pipeline_vars, heap_vars, chat_vars, pc, arg, res, viewer_q,
                    viewer_latest, render_threads, pygame, viewer_error, offered >>

\* _run of thread i: the test of `while self._running`, pygame.quit() after it
render_test(i) ==
    /\ i <= Len(render_threads)
    /\ render_threads[i] = "while"
    /\ render_threads' = [render_threads EXCEPT ![i] =
                              IF viewer_running THEN "events" ELSE "exited"]
    /\ UNCHANGED << pipeline_vars, heap_vars, chat_vars, pc, arg, res, viewer_q,
                    viewer_running, viewer_latest, pygame, viewer_error, offered >>

\* _run of thread i: the q key or a QUIT event clears _running, or neither
render_events(i) ==
    /\ i <= Len(render_threads)
    /\ render_threads[i] = "events"
    /\ render_threads' = [render_threads EXCEPT ![i] = "drain"]
    /\ \E quit \in BOOLEAN :
          viewer_running' = IF quit THEN FALSE ELSE viewer_running
    /\ UNCHANGED << pipeline_vars, heap_vars, chat_vars, pc, arg, res, viewer_q,
                    viewer_latest, pygame, viewer_error, offered >>

\* _run of thread i: one round of _drain_queue, then the drawing and the tick
render_drain(i) ==
    /\ i <= Len(render_threads)
    /\ render_threads[i] = "drain"
    /\ IF viewer_q = << >>
       THEN /\ render_threads' = [render_threads EXCEPT ![i] = "while"]
            /\ UNCHANGED << viewer_q, viewer_latest >>
       ELSE /\ viewer_q' = get_nowait(viewer_q).queue
            /\ viewer_latest' = [viewer_latest EXCEPT
                                    ![get_nowait(viewer_q).item.tag] = get_nowait(viewer_q).item.n]
            /\ UNCHANGED render_threads
    /\ UNCHANGED << pipeline_vars, heap_vars, chat_vars, pc, arg, res, viewer_running,
                    pygame, viewer_error, offered >>

NextViewer ==
    \/ viewer_enqueue
    \/ viewer_start
    \/ viewer_stop
    \/ \E i \in 1..MaxStarts : render_test(i)
    \/ \E i \in 1..MaxStarts : render_events(i)
    \/ \E i \in 1..MaxStarts : render_drain(i)

SpecViewer == InitViewer /\ [][NextViewer]_vars

----------------------------------------------------------------------------
(* base.py: FrameState objects, the objects their fields refer to, and the *)
(* plain forms of to_dict                                                  *)

\* the value of an object with the fields buttons, axes, dpad
Deref(h, o) == FrameState(h[o.buttons].items, h[o.axes].items, h[o.dpad].items)

\* to_dict that hands out the frame's own field objects
to_dict_aliased(h, fr, j) ==
    [heap |-> h, buttons |-> fr.buttons, axes |-> fr.axes, dpad |-> fr.dpad]

\* to_dict for the j-th plain form: list(self.buttons) and list(self.axes) are
\* new lists; tuple(self.dpad) is the dpad itself when that is a tuple, else
\* a new tuple
to_dict_objects(h, fr, j) ==
    LET shared == h[fr.dpad].kind = "tuple" IN
    [heap |-> [h EXCEPT
                  ![PlainCell(j, 1)] = [kind |-> "list", items |-> h[fr.buttons].items],
                  ![PlainCell(j, 2)] = [kind |-> "list", items |-> h[fr.axes].items],
                  ![PlainCell(j, 3)] = IF shared THEN FreeCell
                                       ELSE [kind |-> "tuple", items |-> h[fr.dpad].items]],
     buttons |-> PlainCell(j, 1),
     axes |-> PlainCell(j, 2),
     dpad |-> IF shared THEN fr.dpad ELSE PlainCell(j, 3)]

\* d[key][0] = v: a list takes the item, a tuple raises TypeError
set_item(h, a, v) ==
    IF h[a].kind = "list" /\ h[a].items # << >>
    THEN [h EXCEPT ![a].items[1] = v]
    ELSE h

InitHeap ==
    /\ PipelineVarsIdle
    /\ ChatIdle
    /\ ViewerIdle
    /\ pc = "frames"
    /\ arg = NoArg
    /\ res = NoRes
    /\ heap = EmptyHeap
    /\ frames = << >>
    /\ plains = << >>

\* FrameState(): every field is the class default
new_default_frame ==
    /\ Len(frames) < MaxFrames
    /\ frames' = Append(frames, [buttons |-> 1, axes |-> 2, dpad |-> 3,
                                 born |-> DefaultFrame])
    /\ UNCHANGED << pipeline_vars, chat_vars, viewer_vars, pc, arg, res, heap, plains >>

\* FrameState(buttons=[...], axes=[...], dpad=[...]): the dataclass keeps the
\* lists it is given
new_frame_of_lists ==
    /\ Len(frames) < MaxFrames
    /\ LET i == Len(frames) + 1 IN
          /\ heap' = [heap EXCEPT
                         ![FrameCell(i, 1)] = [kind |-> "list", items |-> PressedFrame.buttons],
                         ![FrameCell(i, 2)] = [kind |-> "list", items |-> PressedFrame.axes],
                         ![FrameCell(i, 3)] = [kind |-> "list", items |-> PressedFrame.dpad]]
          /\ frames' = Append(frames, [buttons |-> FrameCell(i, 1), axes |-> FrameCell(i, 2),
                                       dpad |-> FrameCell(i, 3), born |-> PressedFrame])
    /\ UNCHANGED << pipeline_vars, chat_vars, viewer_vars, pc, arg, res, plains >>

\* m.update(frames[i]) of a shipped modifier: axes = list(state.axes), then
\* FrameState(buttons=state.buttons, axes=tuple(axes), dpad=state.dpad)
frame_modifier_update(i) ==
    /\ i <= Len(frames)
    /\ Len(frames) < MaxFrames
    /\ \E mod \in AllModifiers :
          LET out == mod_update(mod, Deref(heap, frames[i]))
              n == Len(frames) + 1
          IN /\ out.ok
             /\ heap' = [heap EXCEPT ![FrameCell(n, 2)] =
                                         [kind |-> "tuple", items |-> out.frame.axes]]
             /\ frames' = Append(frames, [buttons |-> frames[i].buttons,
                                          axes |-> FrameCell(n, 2),
                                          dpad |-> frames[i].dpad,
                                          born |-> out.frame])
    /\ UNCHANGED << pipeline_vars, chat_vars, viewer_vars, pc, arg, res, plains >>

\* frames[i].to_dict()
frame_to_dict(i) ==
    /\ i <= Len(frames)
    /\ Len(plains) < MaxPlains
    /\ LET d == to_dict_objects(heap, frames[i], Len(plains) + 1) IN
          /\ heap' = d.heap
          /\ plains' = Append(plains, [buttons |-> d.buttons, axes |-> d.axes,
                                       dpad |-> d.dpad, src |-> i, touched |-> FALSE])
    /\ UNCHANGED << pipeline_vars, chat_vars, viewer_vars, pc, arg, res, frames >>

\* a consumer edits the plain form d = plains[j] it was given:
\* d["buttons"][0] = not d["buttons"][0]; d["axes"][0] = 1.0; and
\* d["dpad"][0] = 1, which raises TypeError on a tuple
plain_mutate(j) ==
    /\ j <= Len(plains)
    /\ ~plains[j].touched
    /\ LET h1 == set_item(heap, plains[j].buttons,
                          IF heap[plains[j].buttons].items # << >>
                          THEN ~heap[plains[j].buttons].items[1] ELSE TRUE)
           h2 == set_item(h1, plains[j].axes, Scale)
       IN heap' = set_item(h2, plains[j].dpad, 1)
    /\ plains' = [plains EXCEPT ![j].touched = TRUE]
    /\ UNCHANGED << pipeline_vars, chat_vars, viewer_vars, pc, arg, res, frames >>

NextHeap ==
    \/ new_default_frame
    \/ new_frame_of_lists
    \/ \E i \in 1..MaxFrames : frame_modifier_update(i)
    \/ \E i \in 1..MaxFrames : frame_to_dict(i)
    \/ \E j \in 1..MaxPlains : plain_mutate(j)

SpecHeap == InitHeap /\ [][NextHeap]_vars

----------------------------------------------------------------------------
(* the shipped modifiers, each called on its own *)

InitModifiers == InitDeadzone \/ InitRecoil \/ InitHair \/ InitChat

NextModifiers ==
    \/ call_deadzone
    \/ call_antirecoil
    \/ call_hair_triggers
    \/ NextChat

SpecModifiers == InitModifiers /\ [][NextModifiers]_vars

----------------------------------------------------------------------------
(* SerialInterface.send_frame on an open port, on its own *)

\* frames the encoder can be handed: valid ones, frames with fewer or more
\* than six axes, and the samples a generator hands to the pipeline
EncoderFrames ==
    ValidFrames
    \cup { FrameState(ButtonPattern(m), AxesOfLen(k, n), d) :
            m \in {0, 1}, k \in {1, 6}, n \in 0..MaxPacketAxes,
            d \in { << 0, 0 >>, << 1, 0 - 1 >> } }
    \cup (GenSamples \ { RawSample })

InitPack ==
    /\ PipelineIdle
    /\ pc = "send_frame"
    /\ arg \in { [method |-> "send_frame", f |-> f] : f \in EncoderFrames }
    /\ res = NoRes

\* send_frame(arg.f) up to the bytes handed to ser.write
call_send_frame ==
    /\ pc = "send_frame"
    /\ res' = [called |-> TRUE, ok |-> frame_bytes(arg.f).ok,
               bytes |-> frame_bytes(arg.f).bytes]
    /\ pc' = "returned"
    /\ UNCHANGED << generators, modifiers, on_generate_callbacks,
                    on_post_mod_callbacks, send_interval, last_send, serial,
                    state, sample, idx, now, trace, obs_fault, ret, writes,
                    ticks, failure, raw, norm, arg, modules_vars >>

NextPack == call_send_frame

SpecPack == InitPack /\ [][NextPack]_vars

----------------------------------------------------------------------------
(* Properties of a tick *)

IsPrefix(s, t) == Len(s) <= Len(t) /\ \A i \in 1..Len(s) : s[i] = t[i]

\* the calls of a complete tick, in the order of the contract
FullOrder ==
    << << "generate", generators[1] >> >>
    \o [i \in 1..Len(on_generate_callbacks) |-> << "on_generate", on_generate_callbacks[i] >>]
    \o [i \in 1..Len(modifiers) |-> << "modifier", modifiers[i] >>]
    \o [i \in 1..Len(on_post_mod_callbacks) |-> << "on_post_mod", on_post_mod_callbacks[i] >>]

IsCall(e) == e[1] \in {"generate", "on_generate", "modifier", "on_post_mod"}
IsSend(e) == e[1] = "send_frame"

\* a tick has ended: update() returned or raised
TickEnded == ticks > 0 /\ pc \in {"sleep", "crashed"}

\* what follows the calls in a tick that reached the gate
GateTails ==
    { << << "gate", "skip" >> >> }
    \cup { << << "gate", "pass" >>, << "send_frame", o >> >> :
            o \in {"ok", "TypeError", "ValueError", "RuntimeError", "struct.error",
                   "SerialException"} }

C2_RateGate ==
    [][ /\ (writes' /= writes =>
                /\ serial /= "none"
                /\ now' - last_send >= send_interval
                /\ writes' = Append(writes, now'))
        /\ (last_send' /= last_send =>
                /\ trace[Len(trace)] = << "send_frame", "ok" >>
                /\ writes /= << >>
                /\ last_send' = writes[Len(writes)]
                /\ ticks' = ticks)
      ]_vars

C2_Witness ==
    /\ ticks = 2
    /\ pc = "sleep"
    /\ trace /= << >>
    /\ trace[Len(trace)] = << "gate", "skip" >>
    /\ now - last_send < send_interval
    /\ Len(writes) = 1
    /\ last_send = writes[1]
    /\ serial = "open"

\* C3: any two completed writes are at least send_interval apart on the
\* clock the ticks read
C3_WriteSpacing ==
    \A i, j \in 1..Len(writes) : i < j => writes[j] - writes[i] >= send_interval

C3_Witness ==
    /\ Len(writes) = 2
    /\ writes[2] - writes[1] = send_interval
    /\ send_interval = 2

\* the frame the modifier chain returns for this tick's sample
Transformed == apply_modifiers(modifiers, sample).frame

\* C4: an observer that raises does not end the tick: the failure never
\* leaves update(), the remaining observers are called in order, the
\* modifiers get the generator's frame and the observers after them the
\* chain's result, and the gate decides on the clock alone
C4_ObserverIsolation ==
    /\ failure /= "callback"
    /\ obs_fault /= "none" =>
        /\ \E i \in 1..Len(trace) : trace[i][1] = obs_fault
        /\ \/ IsPrefix(trace, FullOrder)
           \/ \E tail \in GateTails : trace = FullOrder \o tail
        /\ (pc = "on_generate" \/ (pc = "apply_modifiers" /\ idx = 1)) => state = sample
        /\ pc \in {"on_post_mod", "gate", "stamp"} => state = Transformed
        /\ pc = "sleep" => ret = Transformed
        /\ pc = "stamp" => gate_passes(serial, now, last_send, send_interval)
        /\ (pc = "sleep" /\ trace[Len(trace)] = << "gate", "skip" >>)
            => ~gate_passes(serial, now, last_send, send_interval)
        /\ pc = "crashed" => failure \in {"modifier", "TypeError", "ValueError",
                                          "RuntimeError", "struct.error",
                                          "SerialException"}

C4_Witness ==
    /\ obs_fault = "on_generate"
    /\ pc = "stamp"
    /\ Len(on_generate_callbacks) = 2
    /\ Len(on_post_mod_callbacks) = 2
    /\ modifiers = << "deadzone" >>
    /\ sample = PressedFrame
    /\ state /= sample

\* C5 as stated: a generator that raises costs only its tick, the run loop
\* does not end with the generator's exception
C5_GeneratorFaultSkipsTick == ~(pc = "crashed" /\ failure = "generator")

\* C6 as stated: the run loop ends with a failure only on a transport fault
C6_OnlyTransportFaultStops == pc = "crashed" => failure \in TransportFaults

\* C7: a KeyboardInterrupt can arrive at any point of the loop; it ends
\* run_loop without a failure, with the transport closed if there is one,
\* and no tick is started afterwards
C7_CleanShutdown ==
    /\ [](pc \in Running => ENABLED keyboard_interrupt)
    /\ [][ (pc' = "stopped" /\ pc /= "stopped") =>
                /\ pc \in Running
                /\ serial' /= "open"
                /\ failure' = "none"
                /\ writes' = writes
                /\ ticks' = ticks ]_vars
    /\ [][ pc = "stopped" => (pc' = "stopped" /\ ticks' = ticks /\ serial' = serial) ]_vars

C7_Witness ==
    /\ pc = "stopped"
    /\ serial = "closed"
    /\ Len(writes) = 1
    /\ last_send = 0
    /\ ticks = 1

\* C8 as stated: every frame a tick hands to an observer, a modifier or the
\* encoder satisfies the data-model invariants, whatever the generator
\* returned
C8_HandedFramesValid ==
    pc \in {"on_generate", "apply_modifiers", "on_post_mod", "gate", "stamp"}
        => ValidFrame(state)

\* C9: without a transport nothing is sent and nothing is raised by the send
\* step, last_send keeps its initial value, and the tick still makes all its
\* calls and returns the transformed frame
C9_NoTransportNoOp ==
    serial = "none" =>
        /\ writes = << >>
        /\ last_send = 0
        /\ SelectSeq(trace, IsSend) = << >>
        /\ pc /= "stamp"
        /\ pc = "crashed" => failure \in {"generator", "modifier"}
        /\ (pc = "sleep" /\ sample /= NoFrame) =>
                /\ trace = FullOrder \o << << "gate", "skip" >> >>
                /\ ret = Transformed

C9_Witness ==
    /\ serial = "none"
    /\ pc = "sleep"
    /\ ticks = 2
    /\ sample = PressedFrame
    /\ ret /= sample
    /\ Len(on_generate_callbacks) = 1
    /\ Len(on_post_mod_callbacks) = 1
    /\ now >= send_interval

\* C10: from_dict returns, for every raw input, without raising, a frame
\* with 10 buttons, 6 axes in [-1, 1] and a dpad in {-1, 0, 1} x {-1, 0, 1}
C10_NormalizeTotal ==
    norm.called => (~norm.raised /\ ValidFrame(norm.frame))

C10_Witness ==
    /\ norm.called
    /\ raw = RawDict(1, MaxButtonsLen, MaxAxesLen, MaxDpadLen)
    /\ norm.frame.axes = << Scale, 0 - Scale, 0, 0, Scale, 0 - Scale >>
    /\ norm.frame.dpad = << 1, 0 - 1 >>

----------------------------------------------------------------------------
(* Properties of normalisation *)

\* the field of a raw input, None when the input is no mapping or lacks it
FieldOf(obj, key) == IF obj.t = "dict" THEN DictGet(obj, key) ELSE PyNone

Clamp(lo, hi, v) == IF v < lo THEN lo ELSE IF v > hi THEN hi ELSE v

\* the rule of an axis entry: its number, 0.0 when it has none, clamped; the
\* rule defines no clamp of a NaN, for which only the range is required
AxisByRule(e, out) ==
    IF ~ToFloat(e).ok THEN out = 0
    ELSE IF ToFloat(e).nan THEN out >= 0 - Scale /\ out <= Scale
    ELSE out = Clamp(0 - Scale, Scale, ToFloat(e).x)

\* the per-field rules, for the raw input and the frame it was normalised to;
\* pair_only: a dpad counts only when it has exactly two entries
FieldRules(obj, f, pair_only) ==
    LET b == FieldOf(obj, "buttons")
        a == FieldOf(obj, "axes")
        d == FieldOf(obj, "dpad")
    IN /\ Len(f.buttons) = NumButtons
       /\ \A i \in 1..NumButtons :
            f.buttons[i] = (IsSequence(b) /\ i <= Len(b.items) /\ Truthy(b.items[i]))
       /\ Len(f.axes) = NumAxes
       /\ \A i \in 1..NumAxes :
            IF IsSequence(a) /\ i <= Len(a.items)
            THEN AxisByRule(a.items[i], f.axes[i])
            ELSE f.axes[i] = 0
       /\ IF /\ IsSequence(d)
             /\ (IF pair_only THEN Len(d.items) = 2 ELSE Len(d.items) >= 2)
             /\ ToInt(d.items[1]).ok
             /\ ToInt(d.items[2]).ok
          THEN f.dpad = << Clamp(0 - 1, 1, ToInt(d.items[1]).n),
                           Clamp(0 - 1, 1, ToInt(d.items[2]).n) >>
          ELSE f.dpad = << 0, 0 >>

\* the frame the scenario names
ScenarioFrame ==
    FrameState([i \in 1..NumButtons |-> i <= 2], << Scale, 0 - Scale, 0, 0, 0, 0 >>,
               << 1, 0 - 1 >>)

\* C11 as stated: every field follows its rule, the dpad being clamped from
\* its entries only when the raw dpad is a pair, and (0,0) otherwise
C11_PairOnly ==
    norm.called =>
        /\ FieldRules(raw, norm.frame, TRUE)
        /\ raw = ScenarioRaw => norm.frame = ScenarioFrame

\* C11: every field follows its rule: buttons by truthiness, padded with
\* false and cut at 10; axes by their number, 0.0 without one, clamped to
\* [-1,1], padded with 0.0 and cut at 6; the dpad clamped from the first two
\* entries of a list or tuple of at least two entries when both coerce to an
\* integer, and (0,0) otherwise; the scenario input gives the scenario frame
C11_FieldRules ==
    norm.called =>
        /\ FieldRules(raw, norm.frame, FALSE)
        /\ raw = ScenarioRaw => norm.frame = ScenarioFrame

\* a raw dpad of three entries with the scenario's first two
C11_Witness ==
    /\ norm.called
    /\ raw = RawDict(1, 3, NumAxes, 3)
    /\ norm.frame.buttons = ScenarioFrame.buttons
    /\ norm.frame.dpad = << 1, 0 - 1 >>

\* C12: for every frame f that satisfies the data-model invariants,
\* from_dict(f.to_dict()) returns, without raising, a frame equal to f
C12_RoundTrip ==
    (res.called /\ arg.method = "round_trip") =>
        /\ ValidFrame(arg.f)
        /\ ~res.raised
        /\ res.frame = arg.f

C12_Witness ==
    /\ res.called
    /\ arg.method = "round_trip"
    /\ arg.f.dpad = << 1, 0 - 1 >>
    /\ arg.f.buttons = ButtonPattern(3)
    /\ arg.f.axes = AxesPattern(Len(AxisValues))
    /\ res.frame = arg.f

----------------------------------------------------------------------------
(* Properties of the encoder *)

\* axis i of a frame as the packet carries it: 0.0 beyond the frame's axes
PacketAxis(f, i) == IF i <= Len(f.axes) THEN f.axes[i] ELSE 0

\* C13: the bytes packed for a frame are 29, byte 0 is 0xFF, bytes 1-2 the
\* button mask with the low byte first, bytes 3-26 the first six axes in
\* order as little-endian singles, 0.0 for a missing axis, byte 27 the dpad
\* code, and byte 28 the sum of bytes 1..27 modulo 256
C13_PacketLayout ==
    (res.called /\ arg.method = "send_frame" /\ res.ok) =>
        LET b == res.bytes IN
        /\ Len(b) = 29
        /\ \A i \in 1..Len(b) : b[i] \in 0..255
        /\ b[1] = 255
        /\ b[2] + 256 * b[3] = buttons_to_bitmask(arg.f.buttons)
        /\ \A i \in 1..NumAxes :
            SubSeq(b, 4 * i, 4 * i + 3) = pack_float32(PacketAxis(arg.f, i))
        /\ b[28] = dpad_encode(arg.f.dpad)
        /\ b[29] = SumSeq(SubSeq(b, 2, 28)) % 256

\* a frame with seven axes, packed
C13_Witness ==
    /\ res.called
    /\ arg.method = "send_frame"
    /\ res.ok
    /\ Len(arg.f.axes) = NumAxes + 1
    /\ arg.f.dpad = << 1, 0 - 1 >>
    /\ arg.f.buttons = ButtonPattern(1)
    /\ Len(res.bytes) = 29

\* bit i of a mask
Bit(mask, i) == (mask \div 2 ^ i) % 2 = 1

\* C14 as stated: in the mask of every frame the encoder is given and
\* transmits, bit i is set if and only if buttons[i] is true, for i in 0..9,
\* and bits 10 to 15 are zero
C14_MaskBits ==
    pc = "stamp" =>
        LET mask == buttons_to_bitmask(state.buttons) IN
        /\ \A i \in 0..(NumButtons - 1) :
            Bit(mask, i) <=> (i + 1 <= Len(state.buttons) /\ state.buttons[i + 1])
        /\ \A i \in NumButtons..15 : ~Bit(mask, i)

\* C15 as stated: the dpad code is (hx+1) + (hy+1)*3, the 9 combinations of
\* hx, hy in {-1,0,1} have 9 distinct codes in 0..8, (0,0) has code 4, and
\* every frame the pipeline transmits carries a code in 0..8
C15_DpadCode ==
    /\ \A d \in DpadValues :
        dpad_encode(d) = (d[1] + 1) + (d[2] + 1) * 3 /\ dpad_encode(d) \in 0..8
    /\ \A d1, d2 \in DpadValues : d1 /= d2 => dpad_encode(d1) /= dpad_encode(d2)
    /\ dpad_encode(<< 0, 0 >>) = 4
    /\ pc = "stamp" => dpad_encode(state.dpad) \in 0..8

----------------------------------------------------------------------------
(* Properties of the modifier chain *)

\* Mn(...M2(M1(x))), written from the outermost modifier inwards
RECURSIVE Composition(_, _)
Composition(mods, x) ==
    IF mods = << >> THEN x
    ELSE mod_update(mods[Len(mods)], Composition(SubSeq(mods, 1, Len(mods) - 1), x)).frame

IsModifierCall(e) == e[1] = "modifier"

\* C16: the modifiers are called in registration order, each once and with
\* the output of the one before it, so that the frame after the transform
\* step is Mn(...M2(M1(x))) of the generator's frame x, and x itself when no
\* modifier is registered
C16_LeftFold ==
    /\ pc = "apply_modifiers" =>
        /\ SelectSeq(trace, IsModifierCall)
            = [i \in 1..(idx - 1) |-> << "modifier", modifiers[i] >>]
        /\ state = Composition(SubSeq(modifiers, 1, idx - 1), sample)
    /\ pc \in {"on_post_mod", "gate", "stamp"} =>
        /\ SelectSeq(trace, IsModifierCall)
            = [i \in 1..Len(modifiers) |-> << "modifier", modifiers[i] >>]
        /\ state = Composition(modifiers, sample)
        /\ modifiers = << >> => state = sample

\* the recoil modifier has seen the trigger value the hair trigger set
C16_Witness ==
    /\ pc = "gate"
    /\ modifiers = << "hair_triggers", "antirecoil" >>
    /\ sample = PressedFrame
    /\ state.axes[6] = Scale
    /\ state.axes[4] = PressedFrame.axes[4] + RecoilStrength
    /\ state /= Composition(<< "antirecoil", "hair_triggers" >>, sample)

----------------------------------------------------------------------------
(* Properties of combine_generators *)

IsGenerate(e) == e[1] = "generate"

\* C17: a tick samples at most one generator, the one registered first,
\* however many are registered; the frame the tick works on is the one that
\* generator returned; without a generator nothing is sampled and the tick
\* has no frame
C17_FirstGeneratorWins ==
    /\ Len(SelectSeq(trace, IsGenerate)) <= 1
    /\ \A i \in 1..Len(trace) :
        IsGenerate(trace[i]) => (i = 1 /\ generators /= << >> /\ trace[i][2] = generators[1])
    /\ sample /= NoFrame => (trace /= << >> /\ IsGenerate(trace[1]))
    /\ pc = "on_generate" => state = sample
    /\ generators = << >> =>
        (sample = NoFrame /\ state = NoFrame /\ SelectSeq(trace, IsGenerate) = << >>)

C17_Witness ==
    /\ Len(generators) = 2
    /\ pc = "gate"
    /\ sample = PressedFrame
    /\ SelectSeq(trace, IsGenerate) = << << "generate", GeneratorIds[1] >> >>

\* C18: without a registered generator no tick calls an observer or a
\* modifier, evaluates the gate or writes to the transport; last_send keeps
\* its value and every tick returns None
C18_NoGeneratorNoOp ==
    generators = << >> =>
        /\ trace = << >>
        /\ writes = << >>
        /\ last_send = 0
        /\ pc \in {"config", "update", "sleep", "stopped"}
        /\ state = NoFrame
        /\ ret = NoFrame

C18_Witness ==
    /\ generators = << >>
    /\ ticks = 2
    /\ pc = "sleep"
    /\ serial = "open"
    /\ Len(modifiers) = 2
    /\ Len(on_generate_callbacks) = 2
    /\ Len(on_post_mod_callbacks) = 2

----------------------------------------------------------------------------
(* Properties of the modifiers *)

\* the threshold of stick axis i (1..4): left for the first two
StickThreshold(i) == IF i <= 2 THEN arg.left ELSE arg.right

\* C19 as stated: a stick axis comes out 0.0 if and only if abs(v) < T, and
\* otherwise as v
C19_ZeroIffInside ==
    (res.called /\ arg.method = "deadzone") =>
        /\ res.ok
        /\ \A i \in 1..4 :
            /\ res.frame.axes[i] = 0 <=> Abs(arg.f.axes[i]) < StickThreshold(i)
            /\ ~(Abs(arg.f.axes[i]) < StickThreshold(i)) => res.frame.axes[i] = arg.f.axes[i]

\* C19: a stick axis comes out 0.0 if abs(v) < T for its stick's threshold T
\* and as v otherwise, so it is 0.0 if and only if abs(v) < T or v is 0.0;
\* v and -v are treated alike and abs(v) = T is not zeroed; the thresholds of
\* the two sticks are independent
C19_Deadzone ==
    (res.called /\ arg.method = "deadzone") =>
        /\ res.ok
        /\ \A i \in 1..4 :
            /\ Abs(arg.f.axes[i]) < StickThreshold(i) => res.frame.axes[i] = 0
            /\ ~(Abs(arg.f.axes[i]) < StickThreshold(i)) => res.frame.axes[i] = arg.f.axes[i]
            /\ res.frame.axes[i] = 0
                <=> (Abs(arg.f.axes[i]) < StickThreshold(i) \/ arg.f.axes[i] = 0)
            /\ Abs(arg.f.axes[i]) = StickThreshold(i) => res.frame.axes[i] = arg.f.axes[i]
        /\ res.frame.axes[2] = 0 - res.frame.axes[1]
        /\ res.frame.axes[4] = 0 - res.frame.axes[3]

\* left stick on its threshold and kept, right stick just inside its smaller
\* threshold and zeroed
C19_Witness ==
    /\ res.called
    /\ arg.method = "deadzone"
    /\ arg.left = DeadzoneLeft
    /\ arg.right = DeadzoneRight
    /\ arg.f.axes[1] = arg.left
    /\ arg.f.axes[3] = arg.right - 1
    /\ res.frame.axes = << arg.left, 0 - arg.left, 0, 0, 70, 5 >>

\* C20 as stated: with the right trigger t at or above the threshold the
\* right-stick Y comes out as Y + s*t for the configured strength s, and
\* below the threshold the axes come out as they went in
C20_SignedStrength ==
    (res.called /\ arg.method = "antirecoil") =>
        /\ res.ok
        /\ arg.f.axes[6] >= arg.threshold =>
            res.frame.axes[4] * Scale = arg.f.axes[4] * Scale + arg.strength * arg.f.axes[6]
        /\ arg.f.axes[6] < arg.threshold => res.frame.axes = arg.f.axes

\* C20: with the right trigger t at or above the threshold the right-stick Y
\* comes out as Y + abs(s)*t exactly, wherever the right stick is, and the
\* other axes as they went in; below the threshold all axes come out as
\* they went in
C20_Recoil ==
    (res.called /\ arg.method = "antirecoil") =>
        /\ res.ok
        /\ arg.f.axes[6] >= arg.threshold =>
            /\ res.frame.axes[4] * Scale
                = arg.f.axes[4] * Scale + Abs(arg.strength) * arg.f.axes[6]
            /\ \A i \in {1, 2, 3, 5, 6} : res.frame.axes[i] = arg.f.axes[i]
        /\ arg.f.axes[6] < arg.threshold => res.frame.axes = arg.f.axes

\* trigger on the threshold, stick centred, default attributes
C20_Witness ==
    /\ res.called
    /\ arg.method = "antirecoil"
    /\ arg.strength = RecoilStrength
    /\ arg.threshold = TriggerThreshold
    /\ arg.f.axes[6] = TriggerThreshold
    /\ arg.f.axes[3] = 0
    /\ arg.f.axes[4] = 0
    /\ res.frame.axes[4] = 3

\* C21: the right trigger comes out as -1.0 when t <= threshold and as +1.0
\* when t > threshold, never as anything else, and for a threshold in
\* [-1, 1) a second application returns what the first returned
C21_HairTrigger ==
    (res.called /\ arg.method = "hair_triggers") =>
        /\ res.ok
        /\ arg.f.axes[6] <= arg.threshold => res.frame.axes[6] = 0 - Scale
        /\ arg.f.axes[6] > arg.threshold => res.frame.axes[6] = Scale
        /\ res.frame.axes[6] \in {0 - Scale, Scale}
        /\ (arg.threshold >= 0 - Scale /\ arg.threshold < Scale) => res.twice = res.frame

\* trigger on the threshold
C21_Witness ==
    /\ res.called
    /\ arg.method = "hair_triggers"
    /\ arg.threshold = HairThreshold
    /\ arg.f.axes[6] = HairThreshold
    /\ Len(arg.f.buttons) = NumButtons
    /\ res.frame.axes[6] = 0 - Scale
    /\ res.twice = res.frame

\* C22: for every input frame that satisfies the data-model invariants and
\* every configuration, each shipped modifier (deadzone, recoil compensation,
\* hair trigger, external-event override) returns a frame with 10 buttons,
\* 6 axes each in [-1, 1] and dpad components in {-1, 0, 1}.
C22_ModifierKeepsInvariants ==
    (res.called /\ arg.method \in {"deadzone", "antirecoil", "hair_triggers", "twitchchat"}
        /\ ValidFrame(arg.f)) =>
        res.ok /\ ValidFrame(res.frame)

\* C23: with a "left" or "right" message taken from the queue, update moves
\* axis 0 by 0.5 (down for left, up for right), the result clamped to
\* [-1, 1], and changes nothing else; with no message queued it returns the
\* frame it was given.
C23_ChatOverride ==
    (res.called /\ arg.method = "twitchchat") =>
        /\ res.ok
        /\ res.item.msg = "left" =>
              res.frame = [arg.f EXCEPT !.axes[1] = Clamp(0 - Scale, Scale, @ - ChatStep)]
        /\ res.item.msg = "right" =>
              res.frame = [arg.f EXCEPT !.axes[1] = Clamp(0 - Scale, Scale, @ + ChatStep)]
        /\ res.item = NoMessage => res.frame = arg.f

\* C24: deadzone leaves the two trigger axes, the buttons and the dpad as
\* they were; recoil compensation leaves the buttons, the dpad and every axis
\* but right-stick-Y as they were; hair trigger leaves the buttons, the dpad
\* and axes 0..4 as they were, also for a frame with fewer than 10 buttons.
C24_OnlyTargetAxes ==
    (res.called /\ arg.method \in {"deadzone", "antirecoil", "hair_triggers"}) =>
        /\ res.ok
        /\ res.frame.buttons = arg.f.buttons
        /\ res.frame.dpad = arg.f.dpad
        /\ Len(res.frame.axes) = Len(arg.f.axes)
        /\ arg.method = "deadzone" =>
              \A i \in {5, 6} : res.frame.axes[i] = arg.f.axes[i]
        /\ arg.method = "antirecoil" =>
              \A i \in (1..NumAxes) \ {4} : res.frame.axes[i] = arg.f.axes[i]
        /\ arg.method = "hair_triggers" =>
              \A i \in 1..5 : res.frame.axes[i] = arg.f.axes[i]

\* a hair trigger has changed the right trigger of a frame with 3 buttons
C24_Witness ==
    /\ res.called
    /\ arg.method = "hair_triggers"
    /\ Len(arg.f.buttons) = 3
    /\ res.frame.axes[6] # arg.f.axes[6]

\* the queue holds the messages in the order of their arrival
C28_ArrivalOrder ==
    \A i \in 1..Len(msg_queue) : \A j \in 1..Len(msg_queue) :
        i < j => msg_queue[i].n < msg_queue[j].n

\* what one step does to the queue: the listener appends an arrival or, at a
\* full queue, drops it and goes on; an update removes the oldest message
\* and nothing else, and the messages it takes come in arrival order
C28_Steps ==
    /\ msg_queue' # msg_queue =>
          \/ /\ arrived' = arrived + 1
             /\ msg_queue' = Append(msg_queue, [n |-> arrived', msg |-> msg_queue'[Len(msg_queue')].msg])
          \/ /\ msg_queue # << >>
             /\ msg_queue' = Tail(msg_queue)
             /\ res'.called
             /\ res'.item = Head(msg_queue)
    /\ (arrived' = arrived + 1 /\ queue_size >= 1 /\ Len(msg_queue) >= queue_size) =>
          msg_queue' = msg_queue /\ listener_pc' = "while"
    /\ (res' # res /\ msg_queue # << >>) =>
          msg_queue' = Tail(msg_queue) /\ res'.item = Head(msg_queue)
    /\ (res' # res /\ res.called /\ res.item # NoMessage /\ res'.item # NoMessage) =>
          res'.item.n > res.item.n

\* neither thread waits for the other: an arrival is taken from get_message
\* whatever the queue holds, and update returns whatever the queue holds
C28_NonBlocking ==
    /\ (listener_pc = "get_message" /\ arrived < MaxMessages) =>
          ENABLED (listener_run_body /\ arrived' = arrived + 1)
    /\ pc = "twitchchat" => ENABLED (chat_update /\ res'.called)

\* C28 (as stated): under any interleaving of the listener thread and the
\* ticks the queue never holds more than queue_size messages; an arrival at
\* a full queue is dropped without blocking; each update removes at most one
\* message, the oldest, recognised or not; update never blocks.
C28_QueueSizeAlways ==
    /\ [](Len(msg_queue) <= queue_size /\ C28_ArrivalOrder)
    /\ [][C28_Steps]_vars
    /\ []C28_NonBlocking

\* C28 (amended): the same, the bound holding for a queue_size of 1 or more
C28_ChatQueue ==
    /\ []((queue_size >= 1 => Len(msg_queue) <= queue_size) /\ C28_ArrivalOrder)
    /\ [][C28_Steps]_vars
    /\ []C28_NonBlocking

\* three messages arrived at a queue of size 2; the third was dropped, an
\* update took the first, an unrecognised one, and the second is still queued
C28_Witness ==
    /\ queue_size = 2
    /\ arrived = 3
    /\ Len(msg_queue) = 1
    /\ msg_queue[1].n = 2
    /\ res.called
    /\ res.item.n = 1
    /\ res.item.msg = "jump"

\* the bound the channel would have: queue.Queue() has none
ViewerChannelBound == MaxOffers - 1

\* C26: the handoff from a tick to the observer thread is a bounded,
\* non-blocking channel: the number of samples waiting never exceeds a fixed
\* bound, enqueue returns whatever the channel holds, and at a full channel
\* the newest sample is dropped.
C26_BoundedHandoff ==
    /\ [](Len(viewer_q) <= ViewerChannelBound)
    /\ [](offered < MaxOffers => ENABLED viewer_enqueue)
    /\ [][(offered' = offered + 1 /\ Len(viewer_q) >= ViewerChannelBound) =>
              viewer_q' = viewer_q]_vars

\* C29: start() changes nothing while the viewer is marked running, and at
\* most one render thread is active at any time.
C29_OneRenderThread ==
    /\ [](Cardinality(ActiveThreads) <= 1)
    /\ [][viewer_running => Len(render_threads') = Len(render_threads)]_vars

\* a port that selects mock/no-serial mode: empty, or a name that starts
\* with MOCK in any letter case
IsMockPort(port) ==
    \/ port.cls = "NoneType"
    \/ port.chars = << >>
    \/ /\ Len(port.chars) >= 4
       /\ port.chars[1] \in {"m", "M"}
       /\ port.chars[2] \in {"o", "O"}
       /\ port.chars[3] \in {"c", "C"}
       /\ port.chars[4] \in {"k", "K"}

\* C27: in mock/no-serial mode send_frame writes no byte and raises
\* RuntimeError for every Frame and TypeError for every argument that is not
\* a Frame.
C27_MockNeverWrites ==
    (res.called /\ arg.method = "port_send_frame" /\ IsMockPort(arg.port)) =>
        /\ res.written = << >>
        /\ arg.f.cls = "FrameState" => res.raised = "RuntimeError"
        /\ arg.f.cls # "FrameState" => res.raised = "TypeError"

\* C25: a frame is never changed after construction: every frame, also the
\* one a modifier was given, has the value it was constructed with, whatever
\* was done to the plain forms; and a plain form that was not itself mutated
\* equals the frame it came from, whatever was done to the others.
C25_FramesNeverChange ==
    /\ \A i \in 1..Len(frames) : Deref(heap, frames[i]) = frames[i].born
    /\ \A j \in 1..Len(plains) :
          ~plains[j].touched => Deref(heap, plains[j]) = frames[plains[j].src].born

\* two default frames and a modifier's result of one of them exist, the plain
\* form of the first default frame was mutated in its lists, and a plain form
\* was obtained after that
C25_Witness ==
    /\ Len(frames) >= 3
    /\ frames[1].born = DefaultFrame
    /\ frames[2].born = DefaultFrame
    /\ frames[3].born # DefaultFrame
    /\ Len(plains) = 2
    /\ plains[1].src = 1
    /\ plains[1].touched
    /\ Deref(heap, plains[1]).axes # DefaultFrame.axes
    /\ ~plains[2].touched

====
